---- MODULE Spec2Model ----
(***************************************************************************)
(* State-machine models of the classes and scripts of the repository       *)
(* python-data-structures-practice.  Each component (EmailListManager,     *)
(* MLModelRegistry, InventoryManager, GradeBook, CourseManager, and the    *)
(* three framework scripts) has its own variables, its own actions and its *)
(* own specification; a specification leaves the other components idle.    *)
(***************************************************************************)
EXTENDS Integers, Sequences, FiniteSets, TLC

VARIABLES
    \* EmailListManager (src/unnamed/part_002)
    lists,          \* self.lists: name -> set of normalised emails
    list_keys,      \* the keys of self.lists in insertion order
    added,          \* history: the set add_list stored for each name
    e_call,         \* the last call made on the manager
    e_ret,          \* what that call returned (or raised)
    upc,            \* position in the usage script of lines 152-161
    \* InventoryManager (src/solutions/basics/02_dictionaries_optimized.md)
    inventory,      \* self.inventory: name -> InventoryItem
    i_call,         \* the last call made on the manager
    i_ret,          \* what that call returned
    \* GradeBook (src/solutions/basics/02_dictionaries_optimized.md)
    grades,         \* self.grades: student -> grade
    grade_history,  \* self._grade_history: student -> list of earlier grades
    all_grades,     \* history: every grade each student has held, in order
    \* CourseManager (src/unnamed/part_002)
    courses,        \* self.courses: course -> set of prerequisites
    students,       \* self.students: student -> set of completed courses
    course_keys,    \* the keys of self.courses in insertion order
    student_keys,   \* the keys of self.students in insertion order
    c_call,         \* the last call made on the manager
    c_ret,          \* what that call returned (or raised)
    \* MLModelRegistry (src/solutions/advanced/02_ai_optimized.md)
    models,             \* self.models: the models in insertion order, names distinct
    performance_cache,  \* self._performance_cache
    feature_cache,      \* self._feature_cache
    now,                \* datetime.now(), in days
    r_call,             \* the last call made on the registry
    r_ret,              \* what that call returned (or raised)
    \* Assessment runner (framework/content_types/assessments/assessment_template.py)
    a_questions,    \* the assessment's question list
    a_answers,      \* the answers captured so far
    a_correct,      \* the number of answers graded correct so far
    a_score,        \* the reported score, a fraction <<numerator, denominator>>
    a_pc,           \* "building", "taking" or "done"
    \* Exercise generator (framework/generators/exercise_generator.py)
    g_config_file,  \* the file named on the command line
    g_templates,    \* the template files that exist
    g_config,       \* the configuration record once parsed
    g_files,        \* the output files: name -> content
    g_written,      \* the output files the current run has written
    g_pc,           \* stage of the current run
    g_exit,         \* exit status of the last run (-1: none yet)
    g_message,      \* the message of the last run
    g_runs,         \* invocations so far
    g_outputs,      \* history: config and output files of each successful run
    \* Content validator (framework/validation/content_validator.py)
    v_notebook,     \* the notebook under validation: a sequence of cells
    v_pc,           \* "idle", "checking" or "done"
    v_next,         \* position in Checks of the next check to run
    v_results,      \* check -> "pass", "warn" or "fail", for the checks run
    v_report,       \* the report: the errors and the warnings, in order
    \* chunk_iterator (src/solutions/01_lists_solutions.md)
    ch_data,        \* the list being chunked
    ch_size,        \* the chunk size
    ch_pos,         \* how many elements the iterator it has handed out
    ch_yielded,     \* the tuples yielded so far, in order
    ch_pc,          \* "running" or "done"
    \* Assessment question 5 (src/assessments/ds_while_loops_assessment.ipynb)
    q_inventory,    \* inventory: item -> quantity
    q_items,        \* items = list(inventory.keys())
    q_i,            \* i, counted from 0
    q_restocking,   \* restocking_needed
    q_pc,           \* "running", "done" or "KeyError"
    \* Construction of MLModel and PipelineLog objects (02_ai_optimized.md)
    k_call,         \* the last constructor call: class and data
    k_ret,          \* "ok", "ValueError" or "none"
    k_models,       \* models = [MLModel(**model_data) ...]: those constructed
    k_registry,     \* the models of MLModelRegistry(models), once built
    \* DataPipelineMonitor (src/solutions/advanced/02_ai_optimized.md)
    m_logs,             \* self.logs
    m_pipeline_cache,   \* self._pipeline_cache
    m_step_cache,       \* self._step_cache
    m_call,             \* the last call made on the monitor
    m_ret,              \* what that call returned (or raised)
    \* A caller of CourseManager and the set objects it passes (src/unnamed/part_002)
    u_sets,         \* the caller's set objects (ai_course_prereqs, alice_courses, ...)
    u_courses,      \* self.courses: course -> the set object stored
    u_students,     \* self.students: student -> the set object stored
    u_added,        \* history: name -> the set as it was at the add call
    u_passed,       \* history: name -> the caller's object passed at the add call
    u_call,         \* the last call made on the manager
    u_ret,          \* what that call returned (or raised)
    \* TextAnalyzer.find_semantic_clusters (src/unnamed/part_002)
    t_preprocessing,    \* self.preprocessing
    t_documents,        \* documents: each a sequence of whitespace-separated tokens
    t_threshold,        \* threshold, a fraction <<numerator, denominator>>
    t_i,                \* i of the outer loop, counted from 0
    t_j,                \* j of the inner loop
    t_cluster,          \* cluster
    t_clusters,         \* clusters
    t_used,             \* used
    t_pc,               \* "outer", "inner" or "done"
    \* Student grade book exercise (src/solutions/basics/02_dictionaries_optimized.md)
    h_grades,       \* grades.items(): <<student, grade>> pairs in insertion order
    h_basic,        \* highest_student and highest_grade of the Basic approach
    h_optimized,    \* highest_student and highest_grade of the Optimized approach
    \* Music playlist exercise (src/solutions/01_lists_solutions.md)
    p_music_data,   \* music_data
    p_basic,        \* songs, artists, genres of the Basic approach
    p_optimized,    \* songs, artists, genres of the Optimized approach
    p_advanced      \* songs, artists, genres of the Advanced approach

emailVars == <<lists, list_keys, added, e_call, e_ret, upc>>
inventoryVars == <<inventory, i_call, i_ret>>
gradeVars == <<grades, grade_history, all_grades>>
courseVars == <<courses, students, course_keys, student_keys, c_call, c_ret>>
registryVars == <<models, performance_cache, feature_cache, now, r_call, r_ret>>
assessVars == <<a_questions, a_answers, a_correct, a_score, a_pc>>
generatorVars == <<g_config_file, g_templates, g_config, g_files, g_written, g_pc,
                   g_exit, g_message, g_runs, g_outputs>>
validatorVars == <<v_notebook, v_pc, v_next, v_results, v_report>>
chunkVars == <<ch_data, ch_size, ch_pos, ch_yielded, ch_pc>>
restockVars == <<q_inventory, q_items, q_i, q_restocking, q_pc>>
constructVars == <<k_call, k_ret, k_models, k_registry>>
monitorVars == <<m_logs, m_pipeline_cache, m_step_cache, m_call, m_ret>>
callerVars == <<u_sets, u_courses, u_students, u_added, u_passed, u_call, u_ret>>
clusterVars == <<t_preprocessing, t_documents, t_threshold, t_i, t_j, t_cluster, t_clusters, t_used, t_pc>>
highestVars == <<h_grades, h_basic, h_optimized>>
playlistVars == <<p_music_data, p_basic, p_optimized, p_advanced>>

vars == <<emailVars, inventoryVars, gradeVars, courseVars, registryVars,
          assessVars, generatorVars, validatorVars, chunkVars, restockVars,
          constructVars, monitorVars, callerVars, clusterVars, highestVars,
          playlistVars>>

\* What a step of one component leaves alone: the other components.
EmailFrame ==
    UNCHANGED <<inventoryVars, gradeVars, courseVars, registryVars, assessVars,
                generatorVars, validatorVars, chunkVars, restockVars, constructVars,
                monitorVars, callerVars, clusterVars, highestVars, playlistVars>>
InventoryFrame ==
    UNCHANGED <<emailVars, gradeVars, courseVars, registryVars, assessVars,
                generatorVars, validatorVars, chunkVars, restockVars, constructVars,
                monitorVars, callerVars, clusterVars, highestVars, playlistVars>>
GradeFrame ==
    UNCHANGED <<emailVars, inventoryVars, courseVars, registryVars, assessVars,
                generatorVars, validatorVars, chunkVars, restockVars, constructVars,
                monitorVars, callerVars, clusterVars, highestVars, playlistVars>>
CourseFrame ==
    UNCHANGED <<emailVars, inventoryVars, gradeVars, registryVars, assessVars,
                generatorVars, validatorVars, chunkVars, restockVars, constructVars,
                monitorVars, callerVars, clusterVars, highestVars, playlistVars>>
RegistryFrame ==
    UNCHANGED <<emailVars, inventoryVars, gradeVars, courseVars, assessVars,
                generatorVars, validatorVars, chunkVars, restockVars, constructVars,
                monitorVars, callerVars, clusterVars, highestVars, playlistVars>>
AssessFrame ==
    UNCHANGED <<emailVars, inventoryVars, gradeVars, courseVars, registryVars,
                generatorVars, validatorVars, chunkVars, restockVars, constructVars,
                monitorVars, callerVars, clusterVars, highestVars, playlistVars>>
GeneratorFrame ==
    UNCHANGED <<emailVars, inventoryVars, gradeVars, courseVars, registryVars,
                assessVars, validatorVars, chunkVars, restockVars, constructVars,
                monitorVars, callerVars, clusterVars, highestVars, playlistVars>>
ValidatorFrame ==
    UNCHANGED <<emailVars, inventoryVars, gradeVars, courseVars, registryVars,
                assessVars, generatorVars, chunkVars, restockVars, constructVars,
                monitorVars, callerVars, clusterVars, highestVars, playlistVars>>
ChunkFrame ==
    UNCHANGED <<emailVars, inventoryVars, gradeVars, courseVars, registryVars,
                assessVars, generatorVars, validatorVars, restockVars, constructVars,
                monitorVars, callerVars, clusterVars, highestVars, playlistVars>>
RestockFrame ==
    UNCHANGED <<emailVars, inventoryVars, gradeVars, courseVars, registryVars,
                assessVars, generatorVars, validatorVars, chunkVars, constructVars,
                monitorVars, callerVars, clusterVars, highestVars, playlistVars>>
ConstructFrame ==
    UNCHANGED <<emailVars, inventoryVars, gradeVars, courseVars, registryVars,
                assessVars, generatorVars, validatorVars, chunkVars, restockVars,
                monitorVars, callerVars, clusterVars, highestVars, playlistVars>>
MonitorFrame ==
    UNCHANGED <<emailVars, inventoryVars, gradeVars, courseVars, registryVars,
                assessVars, generatorVars, validatorVars, chunkVars, restockVars,
                constructVars, callerVars, clusterVars, highestVars, playlistVars>>
CallerFrame ==
    UNCHANGED <<emailVars, inventoryVars, gradeVars, courseVars, registryVars,
                assessVars, generatorVars, validatorVars, chunkVars, restockVars,
                constructVars, monitorVars, clusterVars, highestVars, playlistVars>>
ClusterFrame ==
    UNCHANGED <<emailVars, inventoryVars, gradeVars, courseVars, registryVars,
                assessVars, generatorVars, validatorVars, chunkVars, restockVars,
                constructVars, monitorVars, callerVars, highestVars, playlistVars>>
HighestFrame ==
    UNCHANGED <<emailVars, inventoryVars, gradeVars, courseVars, registryVars,
                assessVars, generatorVars, validatorVars, chunkVars, restockVars,
                constructVars, monitorVars, callerVars, clusterVars, playlistVars>>
PlaylistFrame ==
    UNCHANGED <<emailVars, inventoryVars, gradeVars, courseVars, registryVars,
                assessVars, generatorVars, validatorVars, chunkVars, restockVars,
                constructVars, monitorVars, callerVars, clusterVars, highestVars>>

(***************************************************************************)
(* Generic helpers                                                         *)
(***************************************************************************)

\* Sequences over S of length at most n.
SeqsUpTo(S, n) == UNION {[1..k -> S] : k \in 0..n}

\* The empty mapping (a dict with no keys).
EmptyDict == <<>>

\* Python's d[k] = v on a dict modelled as a function.
DictSet(d, k, v) == [x \in DOMAIN d \cup {k} |-> IF x = k THEN v ELSE d[x]]

(***************************************************************************)
(* EmailListManager                                                        *)
(***************************************************************************)

MaxEmails == 2      \* longest email list handed to add_list
MaxNames == 2       \* most list names handed to one query

ListNames == {"newsletter", "promotion"}

\* Emails are sequences of characters; the raw ones differ in case and in
\* surrounding whitespace.
RawEmails == {<<"a">>, <<"A">>, <<" ", "a">>, <<"b">>, <<"B", " ">>, <<"c">>}

\* str.lower() on one character.
LowerChar(c) == CASE c = "A" -> "a" [] c = "B" -> "b" [] c = "C" -> "c" [] OTHER -> c

\* str.lower()
lower(s) == [i \in 1..Len(s) |-> LowerChar(s[i])]

RECURSIVE lstrip(_)
lstrip(s) == IF s # <<>> /\ Head(s) = " " THEN lstrip(Tail(s)) ELSE s

RECURSIVE rstrip(_)
rstrip(s) == IF s # <<>> /\ s[Len(s)] = " " THEN rstrip(SubSeq(s, 1, Len(s) - 1)) ELSE s

\* str.strip()
strip(s) == rstrip(lstrip(s))

\* set(email.lower().strip() for email in emails)
NormaliseEmails(emails) == {strip(lower(emails[i])) : i \in 1..Len(emails)}

\* Results of a call: a returned set, or a raised KeyError.
Returned(s) == [kind |-> "set", val |-> s]
KeyError == [kind |-> "KeyError", val |-> {}]
NoReturn == [kind |-> "none", val |-> {}]

\* The loop of get_intersection: result is the very set object stored under
\* `first`, and `result &= self.lists[name]` updates that object in place.
\* A name that is not a key raises KeyError, after the earlier updates.
RECURSIVE IntersectLoop(_, _, _)
IntersectLoop(L, first, rest) ==
    IF rest = <<>> THEN [lists |-> L, ret |-> Returned(L[first])]
    ELSE IF Head(rest) \notin DOMAIN L THEN [lists |-> L, ret |-> KeyError]
    ELSE IntersectLoop([L EXCEPT ![first] = L[first] \cap L[Head(rest)]],
                       first, Tail(rest))

\* get_intersection(*list_names)
get_intersection(L, list_names) ==
    IF list_names = <<>> THEN [lists |-> L, ret |-> Returned({})]
    ELSE IF Head(list_names) \notin DOMAIN L THEN [lists |-> L, ret |-> KeyError]
    ELSE IntersectLoop(L, Head(list_names), Tail(list_names))

\* The loop of get_union: result is a fresh set, so `result |= ...` changes
\* nothing that is stored.
RECURSIVE UnionLoop(_, _, _)
UnionLoop(L, result, rest) ==
    IF rest = <<>> THEN [lists |-> L, ret |-> Returned(result)]
    ELSE IF Head(rest) \notin DOMAIN L THEN [lists |-> L, ret |-> KeyError]
    ELSE UnionLoop(L, result \cup L[Head(rest)], Tail(rest))

\* get_union(*list_names)
get_union(L, list_names) == UnionLoop(L, {}, list_names)

\* The loop of get_exclusive: target is the set object stored under
\* target_list, and `target -= self.lists[exclude]` updates it in place.
RECURSIVE ExclusiveLoop(_, _, _)
ExclusiveLoop(L, target_list, rest) ==
    IF rest = <<>> THEN [lists |-> L, ret |-> Returned(L[target_list])]
    ELSE IF Head(rest) \notin DOMAIN L THEN [lists |-> L, ret |-> KeyError]
    ELSE ExclusiveLoop([L EXCEPT ![target_list] = L[target_list] \ L[Head(rest)]],
                       target_list, Tail(rest))

\* get_exclusive(target_list, *exclude_lists)
get_exclusive(L, target_list, exclude_lists) ==
    IF target_list \notin DOMAIN L THEN [lists |-> L, ret |-> KeyError]
    ELSE ExclusiveLoop(L, target_list, exclude_lists)

\* Results that are dicts, and a raised ZeroDivisionError.
ReturnedDict(d) == [kind |-> "dict", val |-> d]
ZeroDivisionError == [kind |-> "ZeroDivisionError", val |-> {}]

\* analyze_overlap(): for each list, its size and its overlap with each
\* later list; the percentage is the fraction <<100 * count, size>>, and an
\* empty list that has a later list raises ZeroDivisionError.
analyze_overlap(L, keys) ==
    IF \E i \in 1..Len(keys) : i < Len(keys) /\ L[keys[i]] = {}
    THEN [lists |-> L, ret |-> ZeroDivisionError]
    ELSE [lists |-> L,
          ret |-> ReturnedDict(
            [name1 \in DOMAIN L |->
                LET i == CHOOSE k \in 1..Len(keys) : keys[k] = name1 IN
                [size |-> Cardinality(L[name1]),
                 overlaps |->
                    [name2 \in {keys[j] : j \in (i + 1)..Len(keys)} |->
                        LET overlap == L[name1] \cap L[name2] IN
                        [count |-> Cardinality(overlap),
                         percentage |-> <<100 * Cardinality(overlap), Cardinality(L[name1])>>,
                         emails |-> overlap]]]])]

\* The membership signature of an email: the names, in key order, of the
\* lists that hold it.
membership(L, keys, email) ==
    LET Holds(name) == email \in L[name] IN SelectSeq(keys, Holds)

\* get_segmentation(): membership signature -> the emails that have it
get_segmentation(L, keys) ==
    LET all_emails == get_union(L, keys).ret.val IN
    [lists |-> L,
     ret |-> ReturnedDict(
        [m \in {membership(L, keys, email) : email \in all_emails} |->
            {email \in all_emails : membership(L, keys, email) = m}])]

\* The usage script: add newsletter, add promotion, intersection,
\* exclusive(newsletter), exclusive(promotion), union.  UsageNext gives the
\* position after `call` when the script was at `pc`; -1 is off the script.
UsageScript ==
    <<[op |-> "add_list", names |-> <<"newsletter">>],
      [op |-> "add_list", names |-> <<"promotion">>],
      [op |-> "get_intersection", names |-> <<"newsletter", "promotion">>],
      [op |-> "get_exclusive", names |-> <<"newsletter", "promotion">>],
      [op |-> "get_exclusive", names |-> <<"promotion", "newsletter">>],
      [op |-> "get_union", names |-> <<"newsletter", "promotion">>]>>

UsageNext(pc, call) ==
    IF pc >= 0 /\ pc < Len(UsageScript) /\ UsageScript[pc + 1] = call
    THEN pc + 1 ELSE -1

EmailInit ==
    /\ lists = EmptyDict
    /\ list_keys = <<>>
    /\ added = EmptyDict
    /\ e_call = [op |-> "init", names |-> <<>>]
    /\ e_ret = NoReturn
    /\ upc = 0

AddList(name, emails) ==
    LET call == [op |-> "add_list", names |-> <<name>>] IN
    /\ lists' = DictSet(lists, name, NormaliseEmails(emails))
    /\ list_keys' = IF name \in DOMAIN lists THEN list_keys ELSE Append(list_keys, name)
    /\ added' = DictSet(added, name, NormaliseEmails(emails))
    /\ e_call' = call
    /\ e_ret' = NoReturn
    /\ upc' = UsageNext(upc, call)
    /\ EmailFrame

EmailQuery(call, r) ==
    /\ lists' = r.lists
    /\ e_call' = call
    /\ e_ret' = r.ret
    /\ upc' = UsageNext(upc, call)
    /\ UNCHANGED <<added, list_keys>>
    /\ EmailFrame

GetIntersection(list_names) ==
    EmailQuery([op |-> "get_intersection", names |-> list_names],
               get_intersection(lists, list_names))

GetUnion(list_names) ==
    EmailQuery([op |-> "get_union", names |-> list_names],
               get_union(lists, list_names))

GetExclusive(target_list, exclude_lists) ==
    EmailQuery([op |-> "get_exclusive", names |-> <<target_list>> \o exclude_lists],
               get_exclusive(lists, target_list, exclude_lists))

AnalyzeOverlap ==
    EmailQuery([op |-> "analyze_overlap", names |-> <<>>],
               analyze_overlap(lists, list_keys))

GetSegmentation ==
    EmailQuery([op |-> "get_segmentation", names |-> <<>>],
               get_segmentation(lists, list_keys))

EmailNext ==
    \/ \E name \in ListNames, emails \in SeqsUpTo(RawEmails, MaxEmails) :
          AddList(name, emails)
    \/ \E list_names \in SeqsUpTo(ListNames, MaxNames) : GetIntersection(list_names)
    \/ \E list_names \in SeqsUpTo(ListNames, MaxNames) : GetUnion(list_names)
    \/ \E target_list \in ListNames,
          exclude_lists \in SeqsUpTo(ListNames, MaxNames - 1) :
          GetExclusive(target_list, exclude_lists)
    \/ AnalyzeOverlap
    \/ GetSegmentation

(***************************************************************************)
(* InventoryManager                                                        *)
(***************************************************************************)

MaxQuantity == 2    \* largest quantity handed to add_item / update_quantity

ItemNames == {"laptop", "mouse", "keyboard"}
Quantities == 0..MaxQuantity
Prices == {2599, 99999}     \* prices in cents

\* InventoryItem = namedtuple('InventoryItem', ['quantity', 'price'])
InventoryItem(quantity, price) == [quantity |-> quantity, price |-> price]

\* add_item(name, quantity, price) on the dict inv
add_item(inv, name, quantity, price) == DictSet(inv, name, InventoryItem(quantity, price))

\* A plausible slip: the quantity is set whether or not the item exists,
\* creating it with a price of 0, and success is always reported.
update_quantity_upsert(inv, name, new_quantity) ==
    [inventory |-> DictSet(inv, name,
                     InventoryItem(new_quantity,
                                   IF name \in DOMAIN inv THEN inv[name].price ELSE 0)),
     ret |-> "True"]

\* update_quantity(name, new_quantity) on the dict inv: the dict afterwards
\* and the value returned
update_quantity(inv, name, new_quantity) ==
    IF name \in DOMAIN inv
    THEN [inventory |-> [inv EXCEPT ![name] = InventoryItem(new_quantity, inv[name].price)],
          ret |-> "True"]
    ELSE [inventory |-> inv, ret |-> "False"]

InventoryInit ==
    /\ inventory = EmptyDict
    /\ i_call = [op |-> "init", name |-> "", quantity |-> 0]
    /\ i_ret = "None"

AddItem(name, quantity, price) ==
    /\ inventory' = add_item(inventory, name, quantity, price)
    /\ i_call' = [op |-> "add_item", name |-> name, quantity |-> quantity]
    /\ i_ret' = "None"
    /\ InventoryFrame

UpdateQuantity(name, new_quantity) ==
    LET r == update_quantity(inventory, name, new_quantity) IN
    /\ inventory' = r.inventory
    /\ i_call' = [op |-> "update_quantity", name |-> name, quantity |-> new_quantity]
    /\ i_ret' = r.ret
    /\ InventoryFrame

InventoryNext ==
    \/ \E name \in ItemNames, quantity \in Quantities, price \in Prices :
          AddItem(name, quantity, price)
    \/ \E name \in ItemNames, new_quantity \in Quantities :
          UpdateQuantity(name, new_quantity)

(***************************************************************************)
(* GradeBook                                                               *)
(***************************************************************************)

MaxUpdates == 3     \* most grades one student is given (the initial one included)

StudentNames == {"Alice", "Bob"}
GradeValues == {78, 85}

\* The grade books a GradeBook is constructed from (initial_grades or {}).
InitialGrades == {EmptyDict, [Alice |-> 85], [Alice |-> 85, Bob |-> 78]}

\* self._grade_history[student] of the defaultdict(list): [] for a student
\* with no entry
HistoryOf(h, student) == IF student \in DOMAIN h THEN h[student] ELSE <<>>

\* A plausible slip: the new grade, not the one being replaced, is appended
\* to the history.
update_grade_logs_new(gb, student, grade) ==
    [grades |-> DictSet(gb.grades, student, grade),
     history |-> IF student \in DOMAIN gb.grades
                 THEN DictSet(gb.history, student,
                              Append(HistoryOf(gb.history, student), grade))
                 ELSE gb.history]

\* update_grade(student, grade) on gb = (self.grades, self._grade_history)
update_grade(gb, student, grade) ==
    [grades |-> DictSet(gb.grades, student, grade),
     history |-> IF student \in DOMAIN gb.grades
                 THEN DictSet(gb.history, student,
                              Append(HistoryOf(gb.history, student), gb.grades[student]))
                 ELSE gb.history]

GradeIdle ==
    /\ grades = EmptyDict
    /\ grade_history = EmptyDict
    /\ all_grades = EmptyDict

GradeInit ==
    /\ grades \in InitialGrades
    /\ grade_history = EmptyDict
    /\ all_grades = [s \in DOMAIN grades |-> <<grades[s]>>]

UpdateGrade(student, grade) ==
    LET r == update_grade([grades |-> grades, history |-> grade_history], student, grade)
        before == IF student \in DOMAIN all_grades THEN all_grades[student] ELSE <<>>
    IN  /\ Len(before) < MaxUpdates
        /\ grades' = r.grades
        /\ grade_history' = r.history
        /\ all_grades' = DictSet(all_grades, student, Append(before, grade))
        /\ GradeFrame

GradeNext == \E student \in StudentNames, grade \in GradeValues : UpdateGrade(student, grade)

(***************************************************************************)
(* CourseManager                                                           *)
(***************************************************************************)

Subjects == {"Python", "Math", "Statistics"}
CourseNames == {"AI Course", "Web Development"}

\* The sets of completed courses students are added with: one of each size
\* (the prerequisites of a course range over every subset of Subjects).
CompletedSets == {{}, {"Python"}, {"Python", "Math"}, Subjects}

\* PrerequisiteStatus
ELIGIBLE == "eligible"
MISSING_PREREQS == "missing_prerequisites"
OVERQUALIFIED == "overqualified"

ValueError == [kind |-> "ValueError", status |-> "", set |-> {}]
Result(status, set) == [kind |-> "return", status |-> status, set |-> set]
NoResult == [kind |-> "none", status |-> "", set |-> {}]

\* A plausible slip: `>=` for `>` in the overqualification test.
check_eligibility_geq(cs, ss, student, course) ==
    IF student \notin DOMAIN ss \/ course \notin DOMAIN cs THEN ValueError
    ELSE LET student_courses == ss[student]
             required == cs[course]
             missing == required \ student_courses
             extra == student_courses \ required
         IN  IF missing = {}
             THEN IF Cardinality(extra) >= Cardinality(required)
                  THEN Result(OVERQUALIFIED, extra)
                  ELSE Result(ELIGIBLE, {})
             ELSE Result(MISSING_PREREQS, missing)

\* check_eligibility(student, course) over cs = self.courses, ss = self.students
check_eligibility(cs, ss, student, course) ==
    IF student \notin DOMAIN ss \/ course \notin DOMAIN cs THEN ValueError
    ELSE LET student_courses == ss[student]
             required == cs[course]
             missing == required \ student_courses
             extra == student_courses \ required
         IN  IF missing = {}
             THEN IF Cardinality(extra) > Cardinality(required)
                  THEN Result(OVERQUALIFIED, extra)
                  ELSE Result(ELIGIBLE, {})
             ELSE Result(MISSING_PREREQS, missing)

\* The mapping get_student_opportunities returns.
Opportunities(map) == [kind |-> "opportunities", map |-> map]

\* get_student_opportunities(student): the status of check_eligibility for
\* every course of self.courses
get_student_opportunities(cs, ss, student) ==
    IF student \notin DOMAIN ss THEN Opportunities(EmptyDict)
    ELSE Opportunities([course \in DOMAIN cs |->
                           check_eligibility(cs, ss, student, course).status])

\* What the list- and dict-returning queries of CourseManager return.
Students(list) == [kind |-> "students", list |-> list]
Recommendations(list) == [kind |-> "recommendations", list |-> list]
Analysis(map) == [kind |-> "analysis", map |-> map]

\* A plausible slip: `<` (proper subset) for issubset.
get_eligible_students_proper(cs, ss, skeys, course) ==
    IF course \notin DOMAIN cs THEN <<>>
    ELSE LET required == cs[course]
             Eligible(student) == required \subseteq ss[student] /\ required # ss[student]
         IN  SelectSeq(skeys, Eligible)

\* get_eligible_students(course): the students, in the order of
\* self.students, whose courses include every prerequisite
get_eligible_students(cs, ss, skeys, course) ==
    IF course \notin DOMAIN cs THEN <<>>
    ELSE LET required == cs[course]
             Eligible(student) == required \subseteq ss[student]
         IN  SelectSeq(skeys, Eligible)

\* analyze_course_difficulty(): course -> analysis; the rate
\* eligible_count / total_students is the pair <<eligible_count,
\* total_students>>, and <<0, 1>> when there are no students.
analyze_course_difficulty(cs, ss, skeys) ==
    [course \in DOMAIN cs |->
        LET eligible_count == Len(get_eligible_students(cs, ss, skeys, course))
            total_students == Cardinality(DOMAIN ss)
        IN  [prerequisite_count |-> Cardinality(cs[course]),
             eligible_students |-> eligible_count,
             accessibility_rate |->
                IF total_students > 0 THEN <<eligible_count, total_students>> ELSE <<0, 1>>,
             prerequisites |-> cs[course]]]

GetEligibleStudents(course) ==
    /\ c_call' = [op |-> "get_eligible_students", student |-> "", course |-> course]
    /\ c_ret' = Students(get_eligible_students(courses, students, student_keys, course))
    /\ UNCHANGED <<courses, students, course_keys, student_keys>>
    /\ CourseFrame

AnalyzeCourseDifficulty ==
    /\ c_call' = [op |-> "analyze_course_difficulty", student |-> "", course |-> ""]
    /\ c_ret' = Analysis(analyze_course_difficulty(courses, students, student_keys))
    /\ UNCHANGED <<courses, students, course_keys, student_keys>>
    /\ CourseFrame

\* sorted(recommendations, key=lambda x: len(x[1])): a stable sort, so
\* entries with equally many missing prerequisites keep their order.
RECURSIVE sorted_by_missing(_)
sorted_by_missing(list) ==
    IF list = <<>> THEN <<>>
    ELSE LET n == Len(list)
             last == list[n]
             before == sorted_by_missing(SubSeq(list, 1, n - 1))
             NotAfter(x) == Cardinality(x[2]) <= Cardinality(last[2])
             After(x) == Cardinality(x[2]) > Cardinality(last[2])
         IN  SelectSeq(before, NotAfter) \o <<last>> \o SelectSeq(before, After)

\* A plausible slip: `0 <=` for `0 <`, so that courses the student is
\* eligible for are recommended too.
recommend_next_courses_from_zero(cs, ss, ckeys, student) ==
    IF student \notin DOMAIN ss THEN <<>>
    ELSE LET student_courses == ss[student]
             Close(course) ==
                LET missing == cs[course] \ student_courses
                IN  0 <= Cardinality(missing) /\ Cardinality(missing) <= 2
             close == SelectSeq(ckeys, Close)
         IN  sorted_by_missing(
                [i \in 1..Len(close) |-> <<close[i], cs[close[i]] \ student_courses>>])

\* recommend_next_courses(student): the courses, in the order of
\* self.courses, with one or two prerequisites missing, each with its
\* missing set, sorted by the number missing
recommend_next_courses(cs, ss, ckeys, student) ==
    IF student \notin DOMAIN ss THEN <<>>
    ELSE LET student_courses == ss[student]
             Close(course) ==
                LET missing == cs[course] \ student_courses
                IN  0 < Cardinality(missing) /\ Cardinality(missing) <= 2
             close == SelectSeq(ckeys, Close)
         IN  sorted_by_missing(
                [i \in 1..Len(close) |-> <<close[i], cs[close[i]] \ student_courses>>])

RecommendNextCourses(student) ==
    /\ c_call' = [op |-> "recommend_next_courses", student |-> student, course |-> ""]
    /\ c_ret' = Recommendations(
                    recommend_next_courses(courses, students, course_keys, student))
    /\ UNCHANGED <<courses, students, course_keys, student_keys>>
    /\ CourseFrame

CourseInit ==
    /\ courses = EmptyDict
    /\ students = EmptyDict
    /\ course_keys = <<>>
    /\ student_keys = <<>>
    /\ c_call = [op |-> "init", student |-> "", course |-> ""]
    /\ c_ret = NoResult

\* add_course stores prerequisites.copy()
AddCourse(name, prerequisites) ==
    /\ courses' = DictSet(courses, name, prerequisites)
    /\ c_call' = [op |-> "add_course", student |-> "", course |-> name]
    /\ c_ret' = NoResult
    /\ course_keys' = IF name \in DOMAIN courses THEN course_keys ELSE Append(course_keys, name)
    /\ UNCHANGED <<students, student_keys>>
    /\ CourseFrame

\* add_student stores completed_courses.copy()
AddStudent(name, completed_courses) ==
    /\ students' = DictSet(students, name, completed_courses)
    /\ c_call' = [op |-> "add_student", student |-> name, course |-> ""]
    /\ c_ret' = NoResult
    /\ student_keys' = IF name \in DOMAIN students THEN student_keys ELSE Append(student_keys, name)
    /\ UNCHANGED <<courses, course_keys>>
    /\ CourseFrame

CheckEligibility(student, course) ==
    /\ c_call' = [op |-> "check_eligibility", student |-> student, course |-> course]
    /\ c_ret' = check_eligibility(courses, students, student, course)
    /\ UNCHANGED <<courses, students, course_keys, student_keys>>
    /\ CourseFrame

GetStudentOpportunities(student) ==
    /\ c_call' = [op |-> "get_student_opportunities", student |-> student, course |-> ""]
    /\ c_ret' = get_student_opportunities(courses, students, student)
    /\ UNCHANGED <<courses, students, course_keys, student_keys>>
    /\ CourseFrame

CourseNext ==
    \/ \E name \in CourseNames, prerequisites \in SUBSET Subjects :
          AddCourse(name, prerequisites)
    \/ \E name \in StudentNames, completed_courses \in CompletedSets :
          AddStudent(name, completed_courses)
    \/ \E student \in StudentNames, course \in CourseNames :
          CheckEligibility(student, course)
    \/ \E student \in StudentNames : GetStudentOpportunities(student)
    \/ \E course \in CourseNames : GetEligibleStudents(course)
    \/ AnalyzeCourseDifficulty
    \/ \E student \in StudentNames : RecommendNextCourses(student)

(***************************************************************************)
(* MLModel and MLModelRegistry                                             *)
(* Accuracy, precision and recall are in hundredths (0.94 is 94); dates    *)
(* are day numbers.                                                        *)
(***************************************************************************)

MaxModels == 2      \* most models a registry holds
MaxTicks == 1       \* days the clock advances past a start day

RetrainAgeDays == 90        \* needs_retraining: days_since_training > 90
RetrainAccuracy == 80       \* needs_retraining: accuracy < 0.8
UrgentAccuracy == 70        \* get_retraining_schedule: accuracy < 0.7
MonitorAgeDays == 60        \* get_retraining_schedule: days_since_training > 60
AttentionAccuracy == 85     \* Basic approach: accuracy < 0.85

Statuses == {"production", "staging", "deprecated", "development"}

\* The days on which a run starts, and the clock values it can reach.
StartDays == {60, 90}
ClockDays == {d \in 0..200 : \E s \in StartDays : s <= d /\ d - s <= MaxTicks}

\* The MLModel dataclass.
MLModel(name, type, accuracy, precision, recall, last_trained, features, status) ==
    [name |-> name, type |-> type, accuracy |-> accuracy, precision |-> precision,
     recall |-> recall, last_trained |-> last_trained, features |-> features,
     status |-> status]

\* A plausible slip: the status is not validated.
post_init_ok_accuracy_only(m) ==
    0 <= m.accuracy /\ m.accuracy <= 100

\* MLModel.__post_init__: TRUE when construction succeeds, FALSE when it
\* raises ValueError.
post_init_ok(m) ==
    /\ 0 <= m.accuracy /\ m.accuracy <= 100
    /\ m.status \in Statuses

\* Model data handed to MLModel(**model_data); two entries share the name
\* fraud_detector_v1, two have an accuracy out of range and one an unknown
\* status.
ModelsData ==
    {MLModel("fraud_detector_v1", "classification", 94, 89, 91, 0,
             <<"transaction_amount", "user_history">>, "production"),
     MLModel("fraud_detector_v1", "classification", 82, 80, 78, 30,
             <<"transaction_amount">>, "staging"),
     MLModel("recommendation_engine_v2", "recommendation", 87, 82, 85, 30,
             <<"user_history", "item_features">>, "production"),
     MLModel("price_predictor_v1", "regression", 76, 74, 78, 0,
             <<"volume", "volume">>, "deprecated"),
     MLModel("churn_classifier_v3", "classification", 94, 0, 0, 30,
             <<"user_history">>, "development"),
     MLModel("sentiment_v0", "classification", 65, 60, 70, 30,
             <<"user_history">>, "staging"),
     MLModel("broken_accuracy", "regression", 120, 50, 50, 0,
             <<"volume">>, "production"),
     MLModel("negative_accuracy", "regression", -5, 50, 50, 0,
             <<"volume">>, "staging"),
     MLModel("broken_status", "regression", 90, 50, 50, 0,
             <<"volume">>, "retired")}

\* The models that can be constructed.
ModelPool == {m \in ModelsData : post_init_ok(m)}

\* f1_score, as the fraction <<numerator, denominator>>; 0 is <<0, 1>>.
f1_score(m) ==
    IF m.precision + m.recall = 0 THEN <<0, 1>>
    ELSE <<2 * (m.precision * m.recall), m.precision + m.recall>>

\* days_since_training at clock value day
days_since_training(m, day) == day - m.last_trained

\* needs_retraining at clock value day
needs_retraining(m, day) ==
    \/ days_since_training(m, day) > RetrainAgeDays
    \/ m.accuracy < RetrainAccuracy
    \/ m.status = "deprecated"

ModelNames(ms) == {ms[i].name : i \in 1..Len(ms)}

\* self.models[name]
ModelNamed(ms, name) == ms[CHOOSE i \in 1..Len(ms) : ms[i].name = name]

\* self.models[model.name] = model: a new key goes last, an existing key
\* keeps its place and takes the new value.
StoreModel(ms, model) ==
    IF model.name \in ModelNames(ms)
    THEN [i \in 1..Len(ms) |-> IF ms[i].name = model.name THEN model ELSE ms[i]]
    ELSE Append(ms, model)

\* {model.name: model for model in models}
RECURSIVE ModelsDict(_, _)
ModelsDict(acc, list) ==
    IF list = <<>> THEN acc ELSE ModelsDict(StoreModel(acc, Head(list)), Tail(list))

\* [m.accuracy for m in list], [m.f1_score for m in list], [m.name for m in
\* list], [m.type for m in list]
Accuracies(list) == [i \in 1..Len(list) |-> list[i].accuracy]
F1Scores(list) == [i \in 1..Len(list) |-> f1_score(list[i])]
Names(list) == [i \in 1..Len(list) |-> list[i].name]
Types(list) == [i \in 1..Len(list) |-> list[i].type]

\* len([x for x in list if x.status == 'production'])
ProductionCount(list) == Cardinality({i \in 1..Len(list) : list[i].status = "production"})

\* max(list, key=attrgetter('accuracy')): the first model of the highest accuracy
MaxByAccuracy(list) ==
    LET best == CHOOSE i \in 1..Len(list) :
                    /\ \A j \in 1..Len(list) : list[j].accuracy <= list[i].accuracy
                    /\ \A j \in 1..(i - 1) : list[j].accuracy < list[i].accuracy
    IN  list[best]

\* One group of analyze_by_type.  accuracies and f1_scores are the lists whose
\* mean, median and standard deviation the code stores.
TypeAnalysis(models_list, day) ==
    LET NeedsNow(m) == needs_retraining(m, day) IN
    [count |-> Len(models_list),
     accuracies |-> Accuracies(models_list),
     f1_scores |-> F1Scores(models_list),
     best_model |-> MaxByAccuracy(models_list),
     production_count |-> ProductionCount(models_list),
     needs_retraining |-> Names(SelectSeq(models_list, NeedsNow))]

\* The analysis analyze_by_type computes over ms at clock value day: sorting
\* by type and groupby give one group per type, each in insertion order.
ComputeByType(ms, day) ==
    [t \in {ms[i].type : i \in 1..Len(ms)} |->
        LET OfType(m) == m.type = t IN TypeAnalysis(SelectSeq(ms, OfType), day)]

\* Counter(list of types)
Counter(list) ==
    [t \in {list[i] : i \in 1..Len(list)} |-> Cardinality({i \in 1..Len(list) : list[i] = t})]

\* feature_models[feature]: a model is appended once for each time the
\* feature is in its features list.
RECURSIVE ModelsUsing(_, _)
ModelsUsing(ms, feature) ==
    IF ms = <<>> THEN <<>>
    ELSE LET m == Head(ms)
             times == Cardinality({k \in 1..Len(m.features) : m.features[k] = feature})
         IN  [k \in 1..times |-> m] \o ModelsUsing(Tail(ms), feature)

\* The analytics get_feature_analytics computes over ms.
ComputeFeatureAnalytics(ms) ==
    [feature \in UNION {{ms[i].features[k] : k \in 1..Len(ms[i].features)} : i \in 1..Len(ms)} |->
        LET models_using == ModelsUsing(ms, feature) IN
        [usage_count |-> Len(models_using),
         accuracies |-> Accuracies(models_using),
         model_types |-> Counter(Types(models_using)),
         best_performing_model |-> MaxByAccuracy(models_using),
         production_usage |-> ProductionCount(models_using)]]

\* Optional values: None and a value.
None == [some |-> FALSE, val |-> EmptyDict]
Some(v) == [some |-> TRUE, val |-> v]

\* The registry as a record, and results of its calls.
Registry(ms, pc, fc) == [models |-> ms, performance_cache |-> pc, feature_cache |-> fc]
RegRet(kind, val) == [kind |-> kind, val |-> val]

\* _clear_cache()
clear_cache(reg) == Registry(reg.models, EmptyDict, None)

\* A plausible slip: no check for an existing name, so the model is
\* overwritten and the caches are cleared.
add_model_overwrite(reg, model) ==
    [reg |-> clear_cache(Registry(StoreModel(reg.models, model),
                                  reg.performance_cache, reg.feature_cache)),
     ret |-> RegRet("none", EmptyDict)]

\* add_model(model): the registry afterwards and the outcome
add_model(reg, model) ==
    IF model.name \in ModelNames(reg.models)
    THEN [reg |-> reg, ret |-> RegRet("ValueError", EmptyDict)]
    ELSE [reg |-> clear_cache(Registry(StoreModel(reg.models, model),
                                       reg.performance_cache, reg.feature_cache)),
          ret |-> RegRet("none", EmptyDict)]

\* analyze_by_type() at clock value day
analyze_by_type(reg, day) ==
    IF "by_type" \in DOMAIN reg.performance_cache
    THEN [reg |-> reg, ret |-> RegRet("by_type", reg.performance_cache["by_type"])]
    ELSE LET analysis == ComputeByType(reg.models, day) IN
         [reg |-> Registry(reg.models,
                           DictSet(reg.performance_cache, "by_type", analysis),
                           reg.feature_cache),
          ret |-> RegRet("by_type", analysis)]

\* get_feature_analytics()
get_feature_analytics(reg) ==
    IF reg.feature_cache.some
    THEN [reg |-> reg, ret |-> RegRet("features", reg.feature_cache.val)]
    ELSE LET feature_analytics == ComputeFeatureAnalytics(reg.models) IN
         [reg |-> Registry(reg.models, reg.performance_cache, Some(feature_analytics)),
          ret |-> RegRet("features", feature_analytics)]

\* A plausible slip: the urgent test leaves out the deprecated models.
schedule_list_urgent_accuracy_only(m, day) ==
    IF m.accuracy < UrgentAccuracy THEN "urgent"
    ELSE IF needs_retraining(m, day) THEN "soon"
    ELSE IF days_since_training(m, day) > MonitorAgeDays THEN "monitor"
    ELSE "stable"

\* A plausible slip: the age test for monitor comes before the
\* needs_retraining test.
schedule_list_age_first(m, day) ==
    IF m.accuracy < UrgentAccuracy \/ m.status = "deprecated" THEN "urgent"
    ELSE IF days_since_training(m, day) > MonitorAgeDays THEN "monitor"
    ELSE IF needs_retraining(m, day) THEN "soon"
    ELSE "stable"

\* The list of the schedule the if/elif chain of get_retraining_schedule
\* appends model m to, at clock value day.
schedule_list(m, day) ==
    IF m.accuracy < UrgentAccuracy \/ m.status = "deprecated" THEN "urgent"
    ELSE IF needs_retraining(m, day) THEN "soon"
    ELSE IF days_since_training(m, day) > MonitorAgeDays THEN "monitor"
    ELSE "stable"

\* get_retraining_schedule() at clock value day: each list holds its names
\* in the order of self.models.values().
get_retraining_schedule(reg, day) ==
    LET InList(l) == LET Goes(m) == schedule_list(m, day) = l
                     IN  Names(SelectSeq(reg.models, Goes))
    IN  [reg |-> reg,
         ret |-> RegRet("schedule",
                        [urgent |-> InList("urgent"), soon |-> InList("soon"),
                         monitor |-> InList("monitor"), stable |-> InList("stable")])]

\* models_need_attention = retraining_schedule['urgent'] + retraining_schedule['soon']
models_need_attention(retraining_schedule) ==
    retraining_schedule.urgent \o retraining_schedule.soon

\* The Basic approach's models_need_attention over the same models.
basic_models_need_attention(models_data) ==
    LET Attention(m) == m.accuracy < AttentionAccuracy \/ m.status = "deprecated"
    IN  Names(SelectSeq(models_data, Attention))

ThisRegistry == Registry(models, performance_cache, feature_cache)

NoModel == MLModel("", "", 0, 0, 0, 0, <<>>, "")

RegistryIdle ==
    /\ models = <<>>
    /\ performance_cache = EmptyDict
    /\ feature_cache = None
    /\ now = 0
    /\ r_call = [op |-> "init", model |-> NoModel]
    /\ r_ret = RegRet("none", EmptyDict)

\* MLModelRegistry(models) for a list of constructed models
RegistryInit ==
    /\ \E list \in SeqsUpTo(ModelPool, MaxModels) : models = ModelsDict(<<>>, list)
    /\ performance_cache = EmptyDict
    /\ feature_cache = None
    /\ now \in StartDays
    /\ r_call = [op |-> "init", model |-> NoModel]
    /\ r_ret = RegRet("none", EmptyDict)

RegistryCall(call, r) ==
    /\ models' = r.reg.models
    /\ performance_cache' = r.reg.performance_cache
    /\ feature_cache' = r.reg.feature_cache
    /\ r_call' = call
    /\ r_ret' = r.ret
    /\ UNCHANGED now
    /\ RegistryFrame

AddModel(model) ==
    /\ Len(models) < MaxModels \/ model.name \in ModelNames(models)
    /\ RegistryCall([op |-> "add_model", model |-> model], add_model(ThisRegistry, model))

AnalyzeByType ==
    RegistryCall([op |-> "analyze_by_type", model |-> NoModel],
                 analyze_by_type(ThisRegistry, now))

GetFeatureAnalytics ==
    RegistryCall([op |-> "get_feature_analytics", model |-> NoModel],
                 get_feature_analytics(ThisRegistry))

GetRetrainingSchedule ==
    RegistryCall([op |-> "get_retraining_schedule", model |-> NoModel],
                 get_retraining_schedule(ThisRegistry, now))

\* A day passes between two calls (no call is in progress).
Tick ==
    /\ now + 1 \in ClockDays
    /\ now' = now + 1
    /\ r_call' = [op |-> "tick", model |-> NoModel]
    /\ r_ret' = RegRet("none", EmptyDict)
    /\ UNCHANGED <<models, performance_cache, feature_cache>>
    /\ RegistryFrame

RegistryNext ==
    \/ \E model \in ModelPool : AddModel(model)
    \/ AnalyzeByType
    \/ GetFeatureAnalytics
    \/ GetRetrainingSchedule
    \/ Tick

(***************************************************************************)
(* Assessment runner.  The script is not among the sources; it is modelled *)
(* from the specification: a static question list, one answer captured per *)
(* question, exact match for multiple choice, case-insensitive substring   *)
(* or equality for short answer, a score accumulated and reported.         *)
(***************************************************************************)

MaxQuestions == 2   \* most questions in an assessment

QuestionTypes == {"multiple_choice", "short_answer"}

\* Answer texts are sequences of characters.
CorrectAnswers == {<<"a">>, <<"b">>}
GivenAnswers == {<<"a">>, <<"A">>, <<"b">>, <<"b", "a">>}

\* Question(question_type=..., correct_answer=...)
Question(question_type, correct_answer) ==
    [question_type |-> question_type, correct_answer |-> correct_answer]

QuestionPool == {Question(t, c) : t \in QuestionTypes, c \in CorrectAnswers}

\* needle in hay
Contains(hay, needle) ==
    \E i \in 0..(Len(hay) - Len(needle)) : SubSeq(hay, i + 1, i + Len(needle)) = needle

\* A plausible slip: the question type is ignored and every answer is
\* compared exactly.
check_answer_exact(question, answer) == answer = question.correct_answer

\* Whether the answer given to a question is graded correct.
check_answer(question, answer) ==
    IF question.question_type = "multiple_choice"
    THEN answer = question.correct_answer
    ELSE Contains(lower(answer), lower(question.correct_answer))

\* (correct / total) * 100, as a fraction
percentage(correct, total) == <<correct * 100, total>>

AssessIdle ==
    /\ a_questions = <<>>
    /\ a_answers = <<>>
    /\ a_correct = 0
    /\ a_score = <<0, 1>>
    /\ a_pc = "building"

\* assessment.add_question(question)
AddQuestion(question) ==
    /\ a_pc = "building"
    /\ Len(a_questions) < MaxQuestions
    /\ a_questions' = Append(a_questions, question)
    /\ UNCHANGED <<a_answers, a_correct, a_score, a_pc>>
    /\ AssessFrame

\* take_assessment() starts on a non-empty question list.
TakeAssessment ==
    /\ a_pc = "building"
    /\ a_questions # <<>>
    /\ a_pc' = "taking"
    /\ a_answers' = <<>>
    /\ a_correct' = 0
    /\ UNCHANGED <<a_questions, a_score>>
    /\ AssessFrame

\* One pass of the loop: the answer to the next question is captured and
\* graded.
AnswerQuestion(answer) ==
    /\ a_pc = "taking"
    /\ Len(a_answers) < Len(a_questions)
    /\ a_answers' = Append(a_answers, answer)
    /\ a_correct' = IF check_answer(a_questions[Len(a_answers) + 1], answer)
                    THEN a_correct + 1 ELSE a_correct
    /\ UNCHANGED <<a_questions, a_score, a_pc>>
    /\ AssessFrame

\* After the last question the score is computed and reported.
ReportScore ==
    /\ a_pc = "taking"
    /\ Len(a_answers) = Len(a_questions)
    /\ a_score' = percentage(a_correct, Len(a_questions))
    /\ a_pc' = "done"
    /\ UNCHANGED <<a_questions, a_answers, a_correct>>
    /\ AssessFrame

AssessNext ==
    \/ \E question \in QuestionPool : AddQuestion(question)
    \/ TakeAssessment
    \/ \E answer \in GivenAnswers : AnswerQuestion(answer)
    \/ ReportScore

(***************************************************************************)
(* Exercise generator.  The script is not among the sources; it is         *)
(* modelled from the specification and the usage guide: it reads a         *)
(* configuration record, substitutes named placeholders in a notebook and  *)
(* a solution template, and writes two files; malformed JSON, a missing    *)
(* required field or a missing template end the run with a message and a   *)
(* non-zero exit.  File contents are sequences of text pieces.             *)
(***************************************************************************)

MaxRuns == 3        \* invocations of the generator

\* The fields of the configuration of the usage guide (exercise_1 flattened
\* to its title).
RequiredFields ==
    {"topic_name", "difficulty_level", "learning_objective", "estimated_time",
     "data_structures_list", "exercise_1_title"}

\* The placeholder each field fills.
Placeholder ==
    [topic_name |-> "{TOPIC_NAME}", difficulty_level |-> "{DIFFICULTY_LEVEL}",
     learning_objective |-> "{LEARNING_OBJECTIVE}", estimated_time |-> "{ESTIMATED_TIME}",
     data_structures_list |-> "{DATA_STRUCTURES_LIST}",
     exercise_1_title |-> "{EXERCISE_1_TITLE}"]

\* Complete configurations: those of the usage guide, differing in topic.
CompleteConfigs ==
    {[topic_name |-> topic, difficulty_level |-> "intermediate",
      learning_objective |-> "Master deque operations", estimated_time |-> "40",
      data_structures_list |-> "deques, collections",
      exercise_1_title |-> "Task Queue Implementation"] :
        topic \in {"Deques Advanced", "Tuples Advanced"}}

\* config without the field f
WithoutField(config, f) == [x \in DOMAIN config \ {f} |-> config[x]]

\* What the command line can name: a complete configuration, one with a
\* field absent, or a file that is not JSON.
ConfigFiles ==
    {[json_ok |-> TRUE, config |-> c] : c \in CompleteConfigs}
    \cup {[json_ok |-> TRUE, config |-> WithoutField(c, f)] :
              c \in CompleteConfigs, f \in RequiredFields}
    \cup {[json_ok |-> FALSE, config |-> EmptyDict]}

TemplateNames == {"notebook", "solution"}

\* The notebook skeleton.
NotebookTemplate ==
    <<"# ", "{TOPIC_NAME}", "Level: ", "{DIFFICULTY_LEVEL}", "Objective: ",
      "{LEARNING_OBJECTIVE}", "Time: ", "{ESTIMATED_TIME}", "Uses: ",
      "{DATA_STRUCTURES_LIST}", "## Exercise 1: ", "{EXERCISE_1_TITLE}", "# TODO">>

\* The head of framework/templates/solution_template.md.
SolutionTemplate ==
    <<"# Solutions: ", "{TOPIC_NAME}", "## Exercise 1: ", "{EXERCISE_1_TITLE}",
      "### Solution", "{EXERCISE_1_SOLUTION_CODE}", "### Expected Output",
      "{EXERCISE_1_EXPECTED_OUTPUT}">>

Template(name) == IF name = "notebook" THEN NotebookTemplate ELSE SolutionTemplate

\* Every placeholder a field of config fills is replaced by the field's value.
Substitute(template, config) ==
    [i \in 1..Len(template) |->
        IF \E f \in DOMAIN config : Placeholder[f] = template[i]
        THEN config[CHOOSE f \in DOMAIN config : Placeholder[f] = template[i]]
        ELSE template[i]]

\* A plausible slip: the check looks at the top-level fields only.
missing_fields_top_level(config) == (RequiredFields \ {"exercise_1_title"}) \ DOMAIN config

\* The required fields a configuration lacks.
missing_fields(config) == RequiredFields \ DOMAIN config

\* A plausible slip: the file is opened for appending.
write_file_append(files, name, content) ==
    DictSet(files, name, (IF name \in DOMAIN files THEN files[name] ELSE <<>>) \o content)

\* open(name, 'w').write(content)
write_file(files, name, content) == DictSet(files, name, content)

\* The stages of a run, in order.
StageRank ==
    [idle |-> 0, parse |-> 1, validate |-> 2, notebook |-> 3, solution |-> 4, exited |-> 5]

GeneratorIdle ==
    /\ g_config_file = [json_ok |-> FALSE, config |-> EmptyDict]
    /\ g_templates = TemplateNames
    /\ g_config = EmptyDict
    /\ g_files = EmptyDict
    /\ g_written = {}
    /\ g_pc = "idle"
    /\ g_exit = -1
    /\ g_message = ""
    /\ g_runs = 0
    /\ g_outputs = <<>>

GeneratorInit ==
    /\ g_config_file = [json_ok |-> FALSE, config |-> EmptyDict]
    /\ g_templates \in SUBSET TemplateNames
    /\ g_config = EmptyDict
    /\ g_files = EmptyDict
    /\ g_written = {}
    /\ g_pc = "idle"
    /\ g_exit = -1
    /\ g_message = ""
    /\ g_runs = 0
    /\ g_outputs = <<>>

\* python exercise_generator.py <config.json>
Invoke(config_file) ==
    /\ g_pc \in {"idle", "exited"}
    /\ g_runs < MaxRuns
    /\ g_config_file' = config_file
    /\ g_config' = EmptyDict
    /\ g_written' = {}
    /\ g_pc' = "parse"
    /\ g_exit' = -1
    /\ g_message' = ""
    /\ g_runs' = g_runs + 1
    /\ UNCHANGED <<g_templates, g_files, g_outputs>>
    /\ GeneratorFrame

\* The run ends with a message and exit status 1.
Abort(message) ==
    /\ g_pc' = "exited"
    /\ g_exit' = 1
    /\ g_message' = message
    /\ UNCHANGED <<g_config_file, g_templates, g_config, g_files, g_written, g_runs,
                   g_outputs>>
    /\ GeneratorFrame

ParseConfig ==
    /\ g_pc = "parse"
    /\ IF g_config_file.json_ok
       THEN /\ g_config' = g_config_file.config
            /\ g_pc' = "validate"
            /\ UNCHANGED <<g_config_file, g_templates, g_files, g_written, g_exit,
                           g_message, g_runs, g_outputs>>
            /\ GeneratorFrame
       ELSE Abort("invalid JSON")

ValidateConfig ==
    /\ g_pc = "validate"
    /\ IF missing_fields(g_config) = {}
       THEN /\ g_pc' = "notebook"
            /\ UNCHANGED <<g_config_file, g_templates, g_config, g_files, g_written,
                           g_exit, g_message, g_runs, g_outputs>>
            /\ GeneratorFrame
       ELSE Abort("missing required field")

WriteNotebook ==
    /\ g_pc = "notebook"
    /\ IF "notebook" \in g_templates
       THEN /\ g_files' = write_file(g_files, "notebook",
                                     Substitute(Template("notebook"), g_config))
            /\ g_written' = g_written \cup {"notebook"}
            /\ g_pc' = "solution"
            /\ UNCHANGED <<g_config_file, g_templates, g_config, g_exit, g_message,
                           g_runs, g_outputs>>
            /\ GeneratorFrame
       ELSE Abort("template not found")

WriteSolution ==
    /\ g_pc = "solution"
    /\ IF "solution" \in g_templates
       THEN /\ g_files' = write_file(g_files, "solution",
                                     Substitute(Template("solution"), g_config))
            /\ g_written' = g_written \cup {"solution"}
            /\ g_pc' = "exited"
            /\ g_exit' = 0
            /\ g_message' = "generated"
            /\ g_outputs' = Append(g_outputs, [config |-> g_config, files |-> g_files'])
            /\ UNCHANGED <<g_config_file, g_templates, g_config, g_runs>>
            /\ GeneratorFrame
       ELSE Abort("template not found")

GeneratorNext ==
    \/ \E config_file \in ConfigFiles : Invoke(config_file)
    \/ ParseConfig
    \/ ValidateConfig
    \/ WriteNotebook
    \/ WriteSolution

(***************************************************************************)
(* Content validator.  The script is not among the sources; it is modelled *)
(* from the specification and the usage guide: it applies a fixed list of  *)
(* structural checks to a notebook, one after the other, records pass,     *)
(* warn or fail for each, and writes a report of errors and warnings.  A   *)
(* cell is its type, the structural marker it carries and its length.      *)
(***************************************************************************)

MaxCells == 3       \* cells in a notebook
MaxCellLines == 20  \* "15-20 lines max per cell"

\* The cells a notebook is drawn from.
Cells ==
    [cell_type : {"markdown"}, marker : {"title", "exercise", "none"},
     n_lines : {MaxCellLines, MaxCellLines + 1}]
    \cup [cell_type : {"code"}, marker : {"todo", "none"},
          n_lines : {MaxCellLines, MaxCellLines + 1}]

Notebooks == SeqsUpTo(Cells, MaxCells)

\* The fixed list of checks, in the order they run.
Checks == <<"title", "exercise", "todo", "cell_length">>

\* Some cell of the given type carries the marker.
has_marker(notebook, cell_type, marker) ==
    \E i \in 1..Len(notebook) :
        notebook[i].cell_type = cell_type /\ notebook[i].marker = marker

\* A plausible slip: the exercise check looks below the title cell only, so
\* it fails as well when there is no title.
run_check_below_title(name, notebook) ==
    CASE name = "title" ->
            IF has_marker(notebook, "markdown", "title") THEN "pass" ELSE "fail"
      [] name = "exercise" ->
            IF /\ has_marker(notebook, "markdown", "title")
               /\ has_marker(notebook, "markdown", "exercise")
            THEN "pass" ELSE "fail"
      [] name = "todo" ->
            IF has_marker(notebook, "code", "todo") THEN "pass" ELSE "fail"
      [] name = "cell_length" ->
            IF \E i \in 1..Len(notebook) : notebook[i].n_lines > MaxCellLines
            THEN "warn" ELSE "pass"

\* One check: a missing required element fails, an over-long cell warns.
run_check(name, notebook) ==
    CASE name = "title" ->
            IF has_marker(notebook, "markdown", "title") THEN "pass" ELSE "fail"
      [] name = "exercise" ->
            IF has_marker(notebook, "markdown", "exercise") THEN "pass" ELSE "fail"
      [] name = "todo" ->
            IF has_marker(notebook, "code", "todo") THEN "pass" ELSE "fail"
      [] name = "cell_length" ->
            IF \E i \in 1..Len(notebook) : notebook[i].n_lines > MaxCellLines
            THEN "warn" ELSE "pass"

\* The checks with the given outcome, in the order they ran.
RECURSIVE WithOutcome(_, _, _)
WithOutcome(results, outcome, i) ==
    IF i > Len(Checks) THEN <<>>
    ELSE (IF results[Checks[i]] = outcome THEN <<Checks[i]>> ELSE <<>>)
         \o WithOutcome(results, outcome, i + 1)

NoReport == [errors |-> <<>>, warnings |-> <<>>]

ValidatorIdle ==
    /\ v_notebook = <<>>
    /\ v_pc = "idle"
    /\ v_next = 1
    /\ v_results = EmptyDict
    /\ v_report = NoReport

\* python content_validator.py
Validate(notebook) ==
    /\ v_pc = "idle"
    /\ v_notebook' = notebook
    /\ v_pc' = "checking"
    /\ v_next' = 1
    /\ v_results' = EmptyDict
    /\ v_report' = NoReport
    /\ ValidatorFrame

\* The next check of the list runs and its result is recorded.
RunCheck ==
    /\ v_pc = "checking"
    /\ v_next <= Len(Checks)
    /\ v_results' = DictSet(v_results, Checks[v_next], run_check(Checks[v_next], v_notebook))
    /\ v_next' = v_next + 1
    /\ UNCHANGED <<v_notebook, v_pc, v_report>>
    /\ ValidatorFrame

\* validation_report.md: the failed checks are errors, the warned ones warnings.
WriteReport ==
    /\ v_pc = "checking"
    /\ v_next > Len(Checks)
    /\ v_report' = [errors |-> WithOutcome(v_results, "fail", 1),
                    warnings |-> WithOutcome(v_results, "warn", 1)]
    /\ v_pc' = "done"
    /\ UNCHANGED <<v_notebook, v_next, v_results>>
    /\ ValidatorFrame

ValidatorNext ==
    \/ \E notebook \in Notebooks : Validate(notebook)
    \/ RunCheck
    \/ WriteReport

(***************************************************************************)
(* chunk_iterator (src/solutions/01_lists_solutions.md, lines 148-153):    *)
(* one step is one iteration of its while loop.                            *)
(***************************************************************************)

MaxData == 4        \* length of the list
MaxSize == 3        \* chunk size

\* What music_data holds.
DataItems == {"song", "artist", "genre"}

\* The lists chunked.
ChunkLists == SeqsUpTo(DataItems, MaxData)

ChunkSizes == 0..MaxSize

\* islice(it, size) with it at position pos: the next size elements, or as
\* many as are left.
islice(data, pos, size) ==
    SubSeq(data, pos + 1, IF pos + size <= Len(data) THEN pos + size ELSE Len(data))

\* A plausible slip: the length test is dropped and the last, shorter chunk
\* is yielded too.
is_full_always(chunk, size) == TRUE

\* if len(chunk) == size
is_full(chunk, size) == Len(chunk) = size

ChunkIdle ==
    /\ ch_data = <<>>
    /\ ch_size = 1
    /\ ch_pos = 0
    /\ ch_yielded = <<>>
    /\ ch_pc = "done"

\* it = iter(data)
ChunkInit ==
    /\ ch_data \in ChunkLists
    /\ ch_size \in ChunkSizes
    /\ ch_pos = 0
    /\ ch_yielded = <<>>
    /\ ch_pc = "running"

\* while chunk := tuple(islice(it, size)): a non-empty chunk is taken and
\* yielded when it is full.
TakeChunk ==
    /\ ch_pc = "running"
    /\ LET chunk == islice(ch_data, ch_pos, ch_size)
       IN  /\ chunk # <<>>
           /\ ch_pos' = ch_pos + Len(chunk)
           /\ ch_yielded' = IF is_full(chunk, ch_size)
                            THEN Append(ch_yielded, chunk)
                            ELSE ch_yielded
    /\ UNCHANGED <<ch_data, ch_size, ch_pc>>
    /\ ChunkFrame

\* The chunk is empty: the loop and the generator end.
EndChunks ==
    /\ ch_pc = "running"
    /\ islice(ch_data, ch_pos, ch_size) = <<>>
    /\ ch_pc' = "done"
    /\ UNCHANGED <<ch_data, ch_size, ch_pos, ch_yielded>>
    /\ ChunkFrame

ChunkNext ==
    \/ TakeChunk
    \/ EndChunks

(***************************************************************************)
(* Assessment question 5, the loop labelled BUGGY CODE                     *)
(* (src/assessments/ds_while_loops_assessment.ipynb, lines 269-279): one   *)
(* step is one iteration of the while loop.                                *)
(***************************************************************************)

MaxItems == 4       \* keys of the inventory

\* The keys in insertion order.
ItemKeys == <<"apples", "bananas", "oranges", "grapes", "pears">>

StockLevels == {0, 5, 10}

\* The inventories looped over; that of the notebook is among them.
Stocks ==
    UNION {[{ItemKeys[k] : k \in 1..n} -> StockLevels] : n \in 0..MaxItems}

\* list(inventory.keys())
keys(d) ==
    LET n == Cardinality(DOMAIN d)
    IN  SubSeq(ItemKeys, 1, n)

\* del d[key]
del(d, key) == [k \in DOMAIN d \ {key} |-> d[k]]

RestockIdle ==
    /\ q_inventory = EmptyDict
    /\ q_items = <<>>
    /\ q_i = 0
    /\ q_restocking = <<>>
    /\ q_pc = "done"

\* inventory = {...}; restocking_needed = []; items = list(inventory.keys()); i = 0
RestockInit ==
    /\ q_inventory \in Stocks
    /\ q_items = keys(q_inventory)
    /\ q_i = 0
    /\ q_restocking = <<>>
    /\ q_pc = "running"

\* One pass of the loop body; inventory[items[i]] raises KeyError for a key
\* that is no longer there.
RestockStep ==
    /\ q_pc = "running"
    /\ q_i < Len(q_items)
    /\ LET item == q_items[q_i + 1]
       IN  IF item \notin DOMAIN q_inventory
           THEN /\ q_pc' = "KeyError"
                /\ UNCHANGED <<q_inventory, q_items, q_i, q_restocking>>
           ELSE /\ IF q_inventory[item] = 0
                   THEN /\ q_restocking' = Append(q_restocking, item)
                        /\ q_inventory' = del(q_inventory, item)
                   ELSE UNCHANGED <<q_restocking, q_inventory>>
                /\ q_i' = q_i + 1
                /\ UNCHANGED <<q_items, q_pc>>
    /\ RestockFrame

\* i < len(items) is false: the loop ends and the prints run.
RestockEnd ==
    /\ q_pc = "running"
    /\ q_i >= Len(q_items)
    /\ q_pc' = "done"
    /\ UNCHANGED <<q_inventory, q_items, q_i, q_restocking>>
    /\ RestockFrame

RestockNext ==
    \/ RestockStep
    \/ RestockEnd

(***************************************************************************)
(* Construction of MLModel and PipelineLog objects from raw data and of    *)
(* an MLModelRegistry from models, as in the usage of lines 319-320, 707.  *)
(***************************************************************************)

MaxConstructed == 2     \* models constructed before the registry is built

PipelineStatuses == {"success", "warning", "failed", "skipped"}

\* The PipelineLog dataclass.
PipelineLog(pipeline, step, status, records, errors) ==
    [pipeline |-> pipeline, step |-> step, status |-> status, records |-> records,
     errors |-> errors]

\* Log data handed to PipelineLog(**log_data): counts below zero and a status
\* the enumeration does not have are among them.
RawLogs ==
    {PipelineLog("customer_data_prep", "data_ingestion", status, records, errors) :
        status \in PipelineStatuses \cup {"unknown"},
        records \in {-1, 0, 100}, errors \in {-1, 0, 1}}

\* PipelineLog.__post_init__: TRUE when construction succeeds, FALSE when it
\* raises ValueError (PipelineStatus(status) raises it for an unknown value).
log_post_init_ok(l) ==
    /\ l.records >= 0
    /\ l.errors >= 0
    /\ l.status \in PipelineStatuses

NoCall == [cls |-> "none", data |-> EmptyDict]

ConstructIdle ==
    /\ k_call = NoCall
    /\ k_ret = "none"
    /\ k_models = <<>>
    /\ k_registry = <<>>

ConstructInit == ConstructIdle

\* MLModel(**model_data): the object joins the list unless __post_init__ raises.
ConstructModel(model_data) ==
    /\ Len(k_models) < MaxConstructed
    /\ k_call' = [cls |-> "MLModel", data |-> model_data]
    /\ IF post_init_ok(model_data)
       THEN /\ k_ret' = "ok"
            /\ k_models' = Append(k_models, model_data)
       ELSE /\ k_ret' = "ValueError"
            /\ UNCHANGED k_models
    /\ UNCHANGED k_registry
    /\ ConstructFrame

\* PipelineLog(**log_data)
ConstructLog(log_data) ==
    /\ k_call' = [cls |-> "PipelineLog", data |-> log_data]
    /\ k_ret' = IF log_post_init_ok(log_data) THEN "ok" ELSE "ValueError"
    /\ UNCHANGED <<k_models, k_registry>>
    /\ ConstructFrame

\* registry = MLModelRegistry(models)
BuildRegistry ==
    /\ k_call' = [cls |-> "MLModelRegistry", data |-> EmptyDict]
    /\ k_ret' = "ok"
    /\ k_registry' = ModelsDict(<<>>, k_models)
    /\ UNCHANGED k_models
    /\ ConstructFrame

ConstructNext ==
    \/ \E model_data \in ModelsData : ConstructModel(model_data)
    \/ \E log_data \in RawLogs : ConstructLog(log_data)
    \/ BuildRegistry

(***************************************************************************)
(* DataPipelineMonitor.  Rates and scores are exact fractions              *)
(* <<numerator, denominator>> with a positive denominator, in lowest       *)
(* terms; record counts are scaled down.                                   *)
(***************************************************************************)

MaxLogs == 3        \* most logs a monitor is built from

RECURSIVE GCD(_, _)
GCD(a, b) == IF b = 0 THEN a ELSE GCD(b, a % b)

Abs(n) == IF n < 0 THEN -n ELSE n

\* The fraction n/d in lowest terms.
Frac(n, d) ==
    LET g == GCD(Abs(n), d) IN <<n \div g, d \div g>>

FracAdd(x, y) == Frac(x[1] * y[2] + y[1] * x[2], x[2] * y[2])
FracMul(x, y) == Frac(x[1] * y[1], x[2] * y[2])
FracLess(x, y) == x[1] * y[2] < y[1] * x[2]
FracMin(x, y) == IF FracLess(y, x) THEN y ELSE x
FracMax(x, y) == IF FracLess(x, y) THEN y ELSE x

\* sum() and statistics.mean() of a list of fractions
RECURSIVE FracSum(_)
FracSum(list) == IF list = <<>> THEN <<0, 1>> ELSE FracAdd(Head(list), FracSum(Tail(list)))
FracMean(list) == FracMul(FracSum(list), <<1, Len(list)>>)

\* sum() of a list of integers
RECURSIVE Sum(_)
Sum(list) == IF list = <<>> THEN 0 ELSE Head(list) + Sum(Tail(list))

\* sorted(keys): pipeline and step names in alphabetical order
PipelineOrder == <<"customer_data_prep", "fraud_detection_prep", "product_analytics">>
StepOrder == <<"data_cleaning", "data_ingestion", "feature_engineering">>

\* The logs a monitor is built from: those of raw_logs, and one more for
\* each of two pipelines so that every mix of statuses occurs in a pipeline.
LogPool ==
    {PipelineLog("customer_data_prep", "data_ingestion", "success", 100, 0),
     PipelineLog("customer_data_prep", "data_cleaning", "success", 100, 1),
     PipelineLog("fraud_detection_prep", "data_ingestion", "failed", 0, 1),
     PipelineLog("fraud_detection_prep", "data_cleaning", "skipped", 0, 0),
     PipelineLog("fraud_detection_prep", "feature_engineering", "warning", 50, 0),
     PipelineLog("product_analytics", "data_ingestion", "success", 50, 0),
     PipelineLog("product_analytics", "data_cleaning", "warning", 50, 5),
     PipelineLog("product_analytics", "feature_engineering", "skipped", 0, 0)}

\* PipelineLog.error_rate
error_rate(log) == Frac(log.errors, IF log.records > 1 THEN log.records ELSE 1)

\* The logs of a list with the given status, and those without it.
WithStatus(logs, status) == LET Has(log) == log.status = status IN SelectSeq(logs, Has)
WithoutStatus(logs, status) == LET Lacks(log) == log.status # status IN SelectSeq(logs, Lacks)

\* [f(log) for log in logs]
ErrorRates(logs) == [i \in 1..Len(logs) |-> error_rate(logs[i])]
Records(logs) == [i \in 1..Len(logs) |-> logs[i].records]
Errors(logs) == [i \in 1..Len(logs) |-> logs[i].errors]
StatusSet(logs) == {logs[i].status : i \in 1..Len(logs)}

\* sum(1 for log in logs if log.status == SUCCESS) / len(logs)
success_rate(logs) == Frac(Len(WithStatus(logs, "success")), Len(logs))

\* _calculate_health_score(logs)
calculate_health_score(logs) ==
    IF logs = <<>> THEN <<0, 1>>
    ELSE LET success_weight == <<4, 10>>
             error_weight == <<3, 10>>
             completion_weight == <<3, 10>>
             avg_error_rate == FracMean(ErrorRates(logs))
             completion_rate == Frac(Len(WithoutStatus(logs, "skipped")), Len(logs))
             health_score ==
                 FracAdd(FracAdd(FracMul(success_rate(logs), success_weight),
                                 FracMul(FracAdd(<<1, 1>>, FracMul(<<-1, 1>>, avg_error_rate)),
                                         error_weight)),
                         FracMul(completion_rate, completion_weight))
         IN  FracMin(FracMax(health_score, <<0, 1>>), <<1, 1>>)

\* _identify_bottlenecks(logs): list(set(...)), taken as the set
identify_bottlenecks(logs) ==
    {logs[i].step : i \in {j \in 1..Len(logs) :
        \/ logs[j].status \in {"failed", "warning"}
        \/ FracLess(<<5, 100>>, error_rate(logs[j]))}}

\* A plausible slip: the warning test comes before the failed test.
get_completion_status_warning_first(logs) ==
    IF "warning" \in StatusSet(logs) THEN "warning"
    ELSE IF "failed" \in StatusSet(logs) THEN "failed"
    ELSE IF \A i \in 1..Len(logs) : logs[i].status = "success" THEN "success"
    ELSE "partial"

\* _get_completion_status(logs)
get_completion_status(logs) ==
    IF "failed" \in StatusSet(logs) THEN "failed"
    ELSE IF "warning" \in StatusSet(logs) THEN "warning"
    ELSE IF \A i \in 1..Len(logs) : logs[i].status = "success" THEN "success"
    ELSE "partial"

\* The logs of one pipeline, and of one step, in the order of the list
\* (sorted() is stable, so groupby yields them in that order).
OfPipeline(logs, pipeline) ==
    LET In(log) == log.pipeline = pipeline IN SelectSeq(logs, In)
OfStep(logs, step) == LET In(log) == log.step = step IN SelectSeq(logs, In)

\* The keys of the analytics, in the order groupby inserts them.
PipelinesOf(logs) ==
    LET Used(p) == \E i \in 1..Len(logs) : logs[i].pipeline = p
    IN  SelectSeq(PipelineOrder, Used)
StepsOf(logs) ==
    LET Used(s) == \E i \in 1..Len(logs) : logs[i].step = s
    IN  SelectSeq(StepOrder, Used)

\* The analytics get_pipeline_analytics computes for one pipeline.
pipeline_entry(pipeline_logs) ==
    [total_steps |-> Len(pipeline_logs),
     unique_steps |-> Cardinality({pipeline_logs[i].step : i \in 1..Len(pipeline_logs)}),
     success_rate |-> success_rate(pipeline_logs),
     total_records_processed |-> Sum(Records(pipeline_logs)),
     total_errors |-> Sum(Errors(pipeline_logs)),
     overall_error_rate |->
        Frac(Sum(Errors(pipeline_logs)),
             IF Sum(Records(pipeline_logs)) > 1 THEN Sum(Records(pipeline_logs)) ELSE 1),
     step_distribution |->
        [s \in StatusSet(pipeline_logs) |-> Len(WithStatus(pipeline_logs, s))],
     health_score |-> calculate_health_score(pipeline_logs),
     bottleneck_steps |-> identify_bottlenecks(pipeline_logs),
     completion_status |-> get_completion_status(pipeline_logs)]

\* The analytics over all pipelines: pipeline -> entry.
ComputePipelineAnalytics(logs) ==
    [p \in {logs[i].pipeline : i \in 1..Len(logs)} |-> pipeline_entry(OfPipeline(logs, p))]

\* statistics.median(list) of a non-empty list of integers, as a fraction
median(list) ==
    LET n == Len(list)
        Below(v) == Cardinality({i \in 1..n : list[i] < v})
        UpTo(v) == Cardinality({i \in 1..n : list[i] <= v})
        Nth(k) == CHOOSE v \in {list[i] : i \in 1..n} : Below(v) < k /\ k <= UpTo(v)
    IN  IF n % 2 = 1 THEN Frac(Nth((n + 1) \div 2), 1)
        ELSE Frac(Nth(n \div 2) + Nth(n \div 2 + 1), 2)

\* _find_most_problematic_pipeline(step_logs): the first pipeline, in the
\* order the issues were first counted, with the most logs that are not
\* SUCCESS.
find_most_problematic_pipeline(step_logs) ==
    LET issues == WithoutStatus(step_logs, "success")
        Count(p) == Len(OfPipeline(issues, p))
        first == CHOOSE i \in 1..Len(issues) :
                    /\ \A j \in 1..Len(issues) :
                          Count(issues[j].pipeline) <= Count(issues[i].pipeline)
                    /\ \A j \in 1..(i - 1) :
                          Count(issues[j].pipeline) < Count(issues[i].pipeline)
    IN  IF issues = <<>> THEN "none" ELSE issues[first].pipeline

\* The analytics get_step_analytics computes for one step.
step_entry(step_logs) ==
    [execution_count |-> Len(step_logs),
     pipelines_using |-> Cardinality({step_logs[i].pipeline : i \in 1..Len(step_logs)}),
     success_rate |-> success_rate(step_logs),
     avg_records_processed |-> Frac(Sum(Records(step_logs)), Len(step_logs)),
     median_records_processed |-> median(Records(step_logs)),
     avg_error_rate |-> FracMean(ErrorRates(step_logs)),
     reliability_score |->
        FracMul(success_rate(step_logs),
                FracAdd(<<1, 1>>, FracMul(<<-1, 1>>, FracMean(ErrorRates(step_logs))))),
     most_problematic_pipeline |-> find_most_problematic_pipeline(step_logs)]

\* The analytics over all steps: step -> entry.
ComputeStepAnalytics(logs) ==
    [s \in {logs[i].step : i \in 1..Len(logs)} |-> step_entry(OfStep(logs, s))]

MonRet(kind, val) == [kind |-> kind, val |-> val]

\* get_pipeline_analytics(): a non-empty cache is returned as it is
get_pipeline_analytics(cache, logs) ==
    IF cache # EmptyDict
    THEN [cache |-> cache, ret |-> MonRet("pipeline_analytics", cache)]
    ELSE [cache |-> ComputePipelineAnalytics(logs),
          ret |-> MonRet("pipeline_analytics", ComputePipelineAnalytics(logs))]

\* get_step_analytics()
get_step_analytics(cache, logs) ==
    IF cache # EmptyDict
    THEN [cache |-> cache, ret |-> MonRet("step_analytics", cache)]
    ELSE [cache |-> ComputeStepAnalytics(logs),
          ret |-> MonRet("step_analytics", ComputeStepAnalytics(logs))]

\* max(items, key=...): the first key, in insertion order, of the largest score.
FirstMax(order, score) ==
    order[CHOOSE i \in 1..Len(order) :
            /\ \A j \in 1..Len(order) : ~FracLess(score[order[i]], score[order[j]])
            /\ \A j \in 1..(i - 1) : FracLess(score[order[j]], score[order[i]])]

\* _generate_recommendations: each recommendation as <<kind, subject>> (the
\* figures formatted into the text are left out).
generate_recommendations(pipelines, pipeline_analytics, steps, step_analytics) ==
    LET RECURSIVE ForPipelines(_)
        ForPipelines(i) ==
            IF i > Len(pipelines) THEN <<>>
            ELSE LET data == pipeline_analytics[pipelines[i]] IN
                 (IF FracLess(data.health_score, <<7, 10>>)
                  THEN <<<<"review", pipelines[i]>>>> ELSE <<>>)
                 \o (IF FracLess(<<5, 100>>, data.overall_error_rate)
                     THEN <<<<"investigate", pipelines[i]>>>> ELSE <<>>)
                 \o ForPipelines(i + 1)
        LowStep(s) == FracLess(step_analytics[s].success_rate, <<8, 10>>)
        low == SelectSeq(steps, LowStep)
        Failed(p) == pipeline_analytics[p].completion_status = "failed"
    IN  ForPipelines(1)
        \o [i \in 1..Len(low) |-> <<"improve", low[i]>>]
        \o (IF SelectSeq(pipelines, Failed) # <<>>
            THEN <<<<"error_handling", "">>>> ELSE <<>>)

\* get_system_health_report() given both analytics; max() of no pipelines
\* raises ValueError.
system_health_report(logs, pipeline_analytics, step_analytics) ==
    LET pipelines == PipelinesOf(logs)
        steps == StepsOf(logs)
        all_health_scores == [i \in 1..Len(pipelines) |->
                                 pipeline_analytics[pipelines[i]].health_score]
        total_records == Sum([i \in 1..Len(pipelines) |->
                                 pipeline_analytics[pipelines[i]].total_records_processed])
        total_errors == Sum([i \in 1..Len(pipelines) |->
                                 pipeline_analytics[pipelines[i]].total_errors])
        Failed(p) == pipeline_analytics[p].completion_status = "failed"
        LowStep(s) == FracLess(step_analytics[s].success_rate, <<8, 10>>)
    IN  IF pipelines = <<>> THEN MonRet("ValueError", EmptyDict)
        ELSE MonRet("report",
            [system_health_score |-> FracMean(all_health_scores),
             total_pipelines |-> Len(pipelines),
             total_steps_executed |-> Len(logs),
             total_records_processed |-> total_records,
             total_errors |-> total_errors,
             system_error_rate |->
                Frac(total_errors, IF total_records > 1 THEN total_records ELSE 1),
             failed_pipelines |-> SelectSeq(pipelines, Failed),
             low_performing_steps |-> SelectSeq(steps, LowStep),
             healthiest_pipeline |->
                FirstMax(pipelines, [p \in DOMAIN pipeline_analytics |->
                                        pipeline_analytics[p].health_score]),
             most_reliable_step |->
                FirstMax(steps, [s \in DOMAIN step_analytics |->
                                    step_analytics[s].reliability_score]),
             recommendations |->
                generate_recommendations(pipelines, pipeline_analytics,
                                         steps, step_analytics)])

\* pipeline_health = {pipeline: data['health_score'] for ...} (Advanced)
pipeline_health(pipeline_analytics) ==
    [p \in DOMAIN pipeline_analytics |-> pipeline_analytics[p].health_score]

\* The Basic approach's pipeline_health over the same logs: successful steps
\* over total steps.
basic_pipeline_health(pipeline_logs) ==
    [p \in {pipeline_logs[i].pipeline : i \in 1..Len(pipeline_logs)} |->
        LET logs == OfPipeline(pipeline_logs, p)
            total_steps == Len(logs)
            successful_steps == Len(WithStatus(logs, "success"))
        IN  IF total_steps > 0 THEN Frac(successful_steps, total_steps) ELSE <<0, 1>>]

\* error_pipelines = [pipeline for pipeline, data in pipeline_analytics.items()
\*                    if data['total_errors'] > 0] (Advanced)
error_pipelines(pipelines, pipeline_analytics) ==
    LET HasErrors(p) == pipeline_analytics[p].total_errors > 0
    IN  SelectSeq(pipelines, HasErrors)

\* The Basic approach's error_pipelines: each pipeline with a log whose
\* errors > 0, appended at the first such log.
RECURSIVE basic_error_pipelines(_)
basic_error_pipelines(pipeline_logs) ==
    IF pipeline_logs = <<>> THEN <<>>
    ELSE LET n == Len(pipeline_logs)
             log == pipeline_logs[n]
             before == basic_error_pipelines(SubSeq(pipeline_logs, 1, n - 1))
         IN  IF log.errors > 0 /\ \A i \in 1..Len(before) : before[i] # log.pipeline
             THEN Append(before, log.pipeline)
             ELSE before

\* The Basic approach's totals: total_records += log["records"],
\* total_errors += log["errors"] over all logs.
RECURSIVE basic_totals(_)
basic_totals(pipeline_logs) ==
    IF pipeline_logs = <<>> THEN [total_records |-> 0, total_errors |-> 0]
    ELSE LET n == Len(pipeline_logs)
             before == basic_totals(SubSeq(pipeline_logs, 1, n - 1))
         IN  [total_records |-> before.total_records + pipeline_logs[n].records,
              total_errors |-> before.total_errors + pipeline_logs[n].errors]

MonitorIdle ==
    /\ m_logs = <<>>
    /\ m_pipeline_cache = EmptyDict
    /\ m_step_cache = EmptyDict
    /\ m_call = "init"
    /\ m_ret = MonRet("none", EmptyDict)

\* DataPipelineMonitor(structured_logs)
MonitorInit ==
    /\ m_logs \in SeqsUpTo(LogPool, MaxLogs)
    /\ m_pipeline_cache = EmptyDict
    /\ m_step_cache = EmptyDict
    /\ m_call = "init"
    /\ m_ret = MonRet("none", EmptyDict)

GetPipelineAnalytics ==
    LET r == get_pipeline_analytics(m_pipeline_cache, m_logs) IN
    /\ m_call' = "get_pipeline_analytics"
    /\ m_pipeline_cache' = r.cache
    /\ m_ret' = r.ret
    /\ UNCHANGED <<m_logs, m_step_cache>>
    /\ MonitorFrame

GetStepAnalytics ==
    LET r == get_step_analytics(m_step_cache, m_logs) IN
    /\ m_call' = "get_step_analytics"
    /\ m_step_cache' = r.cache
    /\ m_ret' = r.ret
    /\ UNCHANGED <<m_logs, m_pipeline_cache>>
    /\ MonitorFrame

GetSystemHealthReport ==
    LET p == get_pipeline_analytics(m_pipeline_cache, m_logs)
        s == get_step_analytics(m_step_cache, m_logs)
    IN  /\ m_call' = "get_system_health_report"
        /\ m_pipeline_cache' = p.cache
        /\ m_step_cache' = s.cache
        /\ m_ret' = system_health_report(m_logs, p.ret.val, s.ret.val)
        /\ UNCHANGED m_logs
        /\ MonitorFrame

MonitorNext ==
    \/ GetPipelineAnalytics
    \/ GetStepAnalytics
    \/ GetSystemHealthReport

(***************************************************************************)
(* CourseManager and the sets of its caller.  A stored set object is      *)
(* either the manager's own (alias 0, its elements in val) or one of the   *)
(* caller's objects (alias its position in u_sets), so that a change the   *)
(* caller makes to an object shows in every reference to it.               *)
(***************************************************************************)

MaxCallerSets == 2      \* most set objects the caller creates

CallerSubjects == {"Python", "Math"}
CallerCourses == {"AI Course"}
CallerStudents == {"Alice"}

\* A set object of the manager's own, and a reference to the caller's.
Own(set) == [alias |-> 0, val |-> set]
Alias(id) == [alias |-> id, val |-> {}]

\* The elements of a stored object, and a dict of objects read as a dict
\* of sets.
Elements(sets, obj) == IF obj.alias = 0 THEN obj.val ELSE sets[obj.alias]
Deref(sets, d) == [name \in DOMAIN d |-> Elements(sets, d[name])]

\* A plausible slip: the caller's set is stored as it is, without .copy().
add_course_no_copy(sets, cs, name, prerequisites) == DictSet(cs, name, Alias(prerequisites))

\* add_course(name, prerequisites): self.courses[name] = prerequisites.copy(),
\* where prerequisites is the caller's object at that position of sets
add_course(sets, cs, name, prerequisites) == DictSet(cs, name, Own(sets[prerequisites]))

\* add_student(name, completed_courses):
\* self.students[name] = completed_courses.copy()
add_student(sets, ss, name, completed_courses) ==
    DictSet(ss, name, Own(sets[completed_courses]))

CallerIdle ==
    /\ u_sets = <<>>
    /\ u_courses = EmptyDict
    /\ u_students = EmptyDict
    /\ u_added = EmptyDict
    /\ u_passed = EmptyDict
    /\ u_call = [op |-> "init", student |-> "", course |-> ""]
    /\ u_ret = NoResult

\* The caller creates a set: ai_course_prereqs = {...}
NewSet(set) ==
    /\ Len(u_sets) < MaxCallerSets
    /\ u_sets' = Append(u_sets, set)
    /\ UNCHANGED <<u_courses, u_students, u_added, u_passed, u_call, u_ret>>
    /\ CallerFrame

\* The caller changes one of its sets: s.add(subject)
SetAdd(id, subject) ==
    /\ subject \notin u_sets[id]
    /\ u_sets' = [u_sets EXCEPT ![id] = @ \cup {subject}]
    /\ UNCHANGED <<u_courses, u_students, u_added, u_passed, u_call, u_ret>>
    /\ CallerFrame

\* The caller changes one of its sets: s.discard(subject)
SetDiscard(id, subject) ==
    /\ subject \in u_sets[id]
    /\ u_sets' = [u_sets EXCEPT ![id] = @ \ {subject}]
    /\ UNCHANGED <<u_courses, u_students, u_added, u_passed, u_call, u_ret>>
    /\ CallerFrame

\* manager.add_course(name, s) with s one of the caller's sets
CallerAddCourse(name, id) ==
    /\ u_courses' = add_course(u_sets, u_courses, name, id)
    /\ u_added' = DictSet(u_added, name, u_sets[id])
    /\ u_passed' = DictSet(u_passed, name, id)
    /\ u_call' = [op |-> "add_course", student |-> "", course |-> name]
    /\ u_ret' = NoResult
    /\ UNCHANGED <<u_sets, u_students>>
    /\ CallerFrame

\* manager.add_student(name, s) with s one of the caller's sets
CallerAddStudent(name, id) ==
    /\ u_students' = add_student(u_sets, u_students, name, id)
    /\ u_added' = DictSet(u_added, name, u_sets[id])
    /\ u_passed' = DictSet(u_passed, name, id)
    /\ u_call' = [op |-> "add_student", student |-> name, course |-> ""]
    /\ u_ret' = NoResult
    /\ UNCHANGED <<u_sets, u_courses>>
    /\ CallerFrame

\* manager.check_eligibility(student, course) on the sets stored
CallerCheckEligibility(student, course) ==
    /\ u_call' = [op |-> "check_eligibility", student |-> student, course |-> course]
    /\ u_ret' = check_eligibility(Deref(u_sets, u_courses), Deref(u_sets, u_students),
                                  student, course)
    /\ UNCHANGED <<u_sets, u_courses, u_students, u_added, u_passed>>
    /\ CallerFrame

CallerNext ==
    \/ \E set \in SUBSET CallerSubjects : NewSet(set)
    \/ \E id \in 1..Len(u_sets), subject \in CallerSubjects : SetAdd(id, subject)
    \/ \E id \in 1..Len(u_sets), subject \in CallerSubjects : SetDiscard(id, subject)
    \/ \E name \in CallerCourses, id \in 1..Len(u_sets) : CallerAddCourse(name, id)
    \/ \E name \in CallerStudents, id \in 1..Len(u_sets) : CallerAddStudent(name, id)
    \/ \E student \in CallerStudents, course \in CallerCourses :
          CallerCheckEligibility(student, course)

(***************************************************************************)
(* TextAnalyzer.find_semantic_clusters.  A word is a sequence of           *)
(* characters and a document the sequence of its whitespace-separated      *)
(* tokens; similarities are exact fractions.                               *)
(***************************************************************************)

MaxDocs == 3        \* most documents handed to find_semantic_clusters

\* self.stopwords
stopwords ==
    {<<"t", "h", "e">>, <<"a">>, <<"a", "n">>, <<"a", "n", "d">>, <<"o", "r">>,
     <<"b", "u", "t">>, <<"i", "n">>, <<"o", "n">>, <<"a", "t">>, <<"t", "o">>,
     <<"f", "o", "r">>, <<"o", "f">>, <<"w", "i", "t", "h">>, <<"b", "y">>,
     <<"i", "s">>, <<"a", "r", "e">>, <<"w", "a", "s">>, <<"w", "e", "r", "e">>,
     <<"b", "e">>, <<"b", "e", "e", "n">>, <<"b", "e", "i", "n", "g">>}

\* Characters that [^\w\s] matches.
Punctuation == {",", ".", "!"}

\* re.sub(r'[^\w\s]', '', token.lower())
clean(token) ==
    LET Kept(c) == c \notin Punctuation IN SelectSeq(lower(token), Kept)

\* preprocess_text(text): the words of the text, lower-cased and without
\* punctuation, stopwords and words of one or two characters; the tokens
\* as they are when preprocessing is off.
preprocess_text(preprocessing, text) ==
    IF ~preprocessing THEN text
    ELSE LET words == LET NonEmpty(w) == w # <<>>
                      IN  SelectSeq([i \in 1..Len(text) |-> clean(text[i])], NonEmpty)
             Kept(word) == word \notin stopwords /\ Len(word) > 2
         IN  SelectSeq(words, Kept)

\* doc_sets = [set(self.preprocess_text(doc)) for doc in documents]
doc_sets(preprocessing, documents) ==
    [k \in 1..Len(documents) |->
        LET words == preprocess_text(preprocessing, documents[k])
        IN  {words[i] : i \in 1..Len(words)}]

\* A plausible slip: the dice coefficient is taken for the jaccard one.
jaccard_as_dice(set1, set2) ==
    IF set1 # {} \/ set2 # {}
    THEN Frac(2 * Cardinality(set1 \cap set2), Cardinality(set1) + Cardinality(set2))
    ELSE <<0, 1>>

\* _calculate_similarity_metrics(set1, set2)['jaccard']
jaccard(set1, set2) ==
    LET intersection == set1 \cap set2
        union == set1 \cup set2
    IN  IF union # {} THEN Frac(Cardinality(intersection), Cardinality(union))
        ELSE <<0, 1>>

\* The documents and thresholds find_semantic_clusters is called with.
DocPool ==
    {<<<<"a", "b", "c">>, <<"c", "a", "b">>>>,
     <<<<"A", "b", "c">>, <<"c", "a", "b", ",">>>>,
     <<<<"c", "a", "b">>, <<"b", "c", "a">>>>,
     <<<<"a", "b", "c">>, <<"a", "n", "d">>, <<"a", "b">>>>,
     <<<<"a", "n", "d">>>>,
     <<<<"b", "c", "a">>>>}
Thresholds == {<<0, 1>>, <<3, 10>>, <<1, 2>>, <<1, 1>>}

ClusterIdle ==
    /\ t_preprocessing = TRUE
    /\ t_documents = <<>>
    /\ t_threshold = <<3, 10>>
    /\ t_i = 0
    /\ t_j = 0
    /\ t_cluster = <<>>
    /\ t_clusters = <<>>
    /\ t_used = {}
    /\ t_pc = "outer"

\* TextAnalyzer(preprocessing).find_semantic_clusters(documents, threshold)
\* up to the first iteration
ClusterInit ==
    /\ t_preprocessing \in BOOLEAN
    /\ t_documents \in SeqsUpTo(DocPool, MaxDocs)
    /\ t_threshold \in Thresholds
    /\ t_i = 0
    /\ t_j = 0
    /\ t_cluster = <<>>
    /\ t_clusters = <<>>
    /\ t_used = {}
    /\ t_pc = "outer"

\* for i, set1 in enumerate(doc_sets): if i in used: continue
SkipUsed ==
    /\ t_pc = "outer"
    /\ t_i < Len(t_documents)
    /\ t_i \in t_used
    /\ t_i' = t_i + 1
    /\ UNCHANGED <<t_preprocessing, t_documents, t_threshold, t_j, t_cluster,
                   t_clusters, t_used, t_pc>>
    /\ ClusterFrame

\* cluster = [i]; used.add(i); the inner loop starts at i + 1
StartCluster ==
    /\ t_pc = "outer"
    /\ t_i < Len(t_documents)
    /\ t_i \notin t_used
    /\ t_cluster' = <<t_i>>
    /\ t_used' = t_used \cup {t_i}
    /\ t_j' = t_i + 1
    /\ t_pc' = "inner"
    /\ UNCHANGED <<t_preprocessing, t_documents, t_threshold, t_i, t_clusters>>
    /\ ClusterFrame

\* for j, set2 in enumerate(doc_sets[i+1:], i+1): one iteration
CompareDocument ==
    LET sets == doc_sets(t_preprocessing, t_documents)
        similarity == jaccard(sets[t_i + 1], sets[t_j + 1])
        joins == t_j \notin t_used /\ ~FracLess(similarity, t_threshold)
    IN  /\ t_pc = "inner"
        /\ t_j < Len(t_documents)
        /\ t_cluster' = IF joins THEN Append(t_cluster, t_j) ELSE t_cluster
        /\ t_used' = IF joins THEN t_used \cup {t_j} ELSE t_used
        /\ t_j' = t_j + 1
        /\ UNCHANGED <<t_preprocessing, t_documents, t_threshold, t_i, t_clusters, t_pc>>
        /\ ClusterFrame

\* clusters.append(cluster), and on to the next i
CloseCluster ==
    /\ t_pc = "inner"
    /\ t_j >= Len(t_documents)
    /\ t_clusters' = Append(t_clusters, t_cluster)
    /\ t_i' = t_i + 1
    /\ t_pc' = "outer"
    /\ UNCHANGED <<t_preprocessing, t_documents, t_threshold, t_j, t_cluster, t_used>>
    /\ ClusterFrame

\* return clusters
ReturnClusters ==
    /\ t_pc = "outer"
    /\ t_i >= Len(t_documents)
    /\ t_pc' = "done"
    /\ UNCHANGED <<t_preprocessing, t_documents, t_threshold, t_i, t_j, t_cluster,
                   t_clusters, t_used>>
    /\ ClusterFrame

ClusterNext ==
    \/ SkipUsed
    \/ StartCluster
    \/ CompareDocument
    \/ CloseCluster
    \/ ReturnClusters

(***************************************************************************)
(* Student grade book exercise: the highest grade, found by the Basic      *)
(* approach's scan and by the Optimized approach's max().                  *)
(***************************************************************************)

MaxStudents == 3    \* most students in a grade book

BookStudents == {"Alice", "Bob", "Charlie", "Diana"}
BookGrades == {-5, 0, 78, 92}

\* The non-empty grade books: each student at most once.
GradeBooks ==
    {items \in SeqsUpTo(BookStudents \X BookGrades, MaxStudents) :
        /\ items # <<>>
        /\ \A i, j \in 1..Len(items) : i # j => items[i][1] # items[j][1]}

NotComputed == [highest_student |-> "", highest_grade |-> 0, done |-> FALSE]
Highest(student, grade) == [highest_student |-> student, highest_grade |-> grade, done |-> TRUE]

\* The Basic approach: highest_student = None, highest_grade = 0, and both
\* are replaced at each grade greater than highest_grade.
RECURSIVE basic_highest(_)
basic_highest(items) ==
    IF items = <<>> THEN Highest("None", 0)
    ELSE LET n == Len(items)
             before == basic_highest(SubSeq(items, 1, n - 1))
         IN  IF items[n][2] > before.highest_grade
             THEN Highest(items[n][1], items[n][2])
             ELSE before

\* The Optimized approach: highest_student = max(grades, key=grades.get),
\* the first student of the largest grade; highest_grade = grades[highest_student].
optimized_highest(items) ==
    LET i == CHOOSE k \in 1..Len(items) :
                /\ \A j \in 1..Len(items) : items[j][2] <= items[k][2]
                /\ \A j \in 1..(k - 1) : items[j][2] < items[k][2]
    IN  Highest(items[i][1], items[i][2])

HighestIdle ==
    /\ h_grades = <<>>
    /\ h_basic = NotComputed
    /\ h_optimized = NotComputed

HighestInit ==
    /\ h_grades \in GradeBooks
    /\ h_basic = NotComputed
    /\ h_optimized = NotComputed

ScanBasic ==
    /\ ~h_basic.done
    /\ h_basic' = basic_highest(h_grades)
    /\ UNCHANGED <<h_grades, h_optimized>>
    /\ HighestFrame

MaxOptimized ==
    /\ ~h_optimized.done
    /\ h_optimized' = optimized_highest(h_grades)
    /\ UNCHANGED <<h_grades, h_basic>>
    /\ HighestFrame

HighestNext ==
    \/ ScanBasic
    \/ MaxOptimized

(***************************************************************************)
(* Music playlist exercise: songs, artists and genres taken from the flat  *)
(* list by slicing (Basic), by zip (Optimized) and by chunk_iterator       *)
(* (Advanced).  Lists and tuples are both sequences.                       *)
(***************************************************************************)

MaxMusic == 6       \* length of music_data

\* What the three approaches leave in songs, artists, genres (or raise).
NoPlaylist == [kind |-> "none", songs |-> <<>>, artists |-> <<>>, genres |-> <<>>]
Playlist(songs, artists, genres) ==
    [kind |-> "ok", songs |-> songs, artists |-> artists, genres |-> genres]
UnpackError == [kind |-> "ValueError", songs |-> <<>>, artists |-> <<>>, genres |-> <<>>]

\* data[start::step]
slice(data, start, step) ==
    LET count == IF Len(data) > start THEN (Len(data) - start + step - 1) \div step ELSE 0
    IN  [k \in 1..count |-> data[start + (k - 1) * step + 1]]

\* The Basic approach: music_data[::3], music_data[1::3], music_data[2::3]
basic_playlist(music_data) ==
    Playlist(slice(music_data, 0, 3), slice(music_data, 1, 3), slice(music_data, 2, 3))

\* zip(*rows): one tuple per position that every row has; none for no rows
zip(rows) ==
    LET Shortest == CHOOSE n \in {Len(rows[r]) : r \in 1..Len(rows)} :
                        \A r \in 1..Len(rows) : n <= Len(rows[r])
        columns == IF rows = <<>> THEN 0 ELSE Shortest
    IN  [c \in 1..columns |-> [r \in 1..Len(rows) |-> rows[r][c]]]

\* chunk_data(data, size) = zip(*[iter(data)] * size): the tuples of size
\* consecutive elements; the elements left over at the end are dropped
chunk_data(data, size) ==
    [k \in 1..(Len(data) \div size) |-> SubSeq(data, (k - 1) * size + 1, k * size)]

\* The Optimized approach: playlist = list(chunk_data(music_data, 3));
\* songs, artists, genres = zip(*playlist), which raises ValueError unless
\* zip gives three tuples
optimized_playlist(music_data) ==
    LET playlist == chunk_data(music_data, 3)
        columns == zip(playlist)
    IN  IF Len(columns) = 3 THEN Playlist(columns[1], columns[2], columns[3])
        ELSE UnpackError

\* list(chunk_iterator(data, size)) with the iterator at position pos
RECURSIVE chunk_iterator(_, _, _)
chunk_iterator(data, pos, size) ==
    LET chunk == islice(data, pos, size)
    IN  IF chunk = <<>> THEN <<>>
        ELSE (IF is_full(chunk, size) THEN <<chunk>> ELSE <<>>)
             \o chunk_iterator(data, pos + Len(chunk), size)

\* Track = namedtuple('Track', ['song', 'artist', 'genre'])
Track(song, artist, genre) == [song |-> song, artist |-> artist, genre |-> genre]

\* The Advanced approach: playlist = [Track(*chunk) for chunk in
\* chunk_iterator(music_data, 3)], then one list per field
advanced_playlist(music_data) ==
    LET chunks == chunk_iterator(music_data, 0, 3)
        playlist == [k \in 1..Len(chunks) |->
                        Track(chunks[k][1], chunks[k][2], chunks[k][3])]
    IN  Playlist([k \in 1..Len(playlist) |-> playlist[k].song],
                 [k \in 1..Len(playlist) |-> playlist[k].artist],
                 [k \in 1..Len(playlist) |-> playlist[k].genre])

PlaylistIdle ==
    /\ p_music_data = <<>>
    /\ p_basic = NoPlaylist
    /\ p_optimized = NoPlaylist
    /\ p_advanced = NoPlaylist

PlaylistInit ==
    /\ p_music_data \in SeqsUpTo(DataItems, MaxMusic)
    /\ p_basic = NoPlaylist
    /\ p_optimized = NoPlaylist
    /\ p_advanced = NoPlaylist

SliceBasic ==
    /\ p_basic = NoPlaylist
    /\ p_basic' = basic_playlist(p_music_data)
    /\ UNCHANGED <<p_music_data, p_optimized, p_advanced>>
    /\ PlaylistFrame

ZipOptimized ==
    /\ p_optimized = NoPlaylist
    /\ p_optimized' = optimized_playlist(p_music_data)
    /\ UNCHANGED <<p_music_data, p_basic, p_advanced>>
    /\ PlaylistFrame

ChunkAdvanced ==
    /\ p_advanced = NoPlaylist
    /\ p_advanced' = advanced_playlist(p_music_data)
    /\ UNCHANGED <<p_music_data, p_basic, p_optimized>>
    /\ PlaylistFrame

PlaylistNext ==
    \/ SliceBasic
    \/ ZipOptimized
    \/ ChunkAdvanced

(***************************************************************************)
(* Specifications: one per component, the others idle                      *)
(***************************************************************************)

EmailSpecInit ==
    /\ EmailInit
    /\ InventoryInit
    /\ GradeIdle
    /\ CourseInit
    /\ RegistryIdle
    /\ AssessIdle
    /\ GeneratorIdle
    /\ ValidatorIdle
    /\ ChunkIdle
    /\ RestockIdle
    /\ ConstructIdle
    /\ MonitorIdle
    /\ CallerIdle
    /\ ClusterIdle
    /\ HighestIdle
    /\ PlaylistIdle
EmailSpec == EmailSpecInit /\ [][EmailNext]_vars

InventorySpecInit ==
    /\ EmailInit
    /\ InventoryInit
    /\ GradeIdle
    /\ CourseInit
    /\ RegistryIdle
    /\ AssessIdle
    /\ GeneratorIdle
    /\ ValidatorIdle
    /\ ChunkIdle
    /\ RestockIdle
    /\ ConstructIdle
    /\ MonitorIdle
    /\ CallerIdle
    /\ ClusterIdle
    /\ HighestIdle
    /\ PlaylistIdle
InventorySpec == InventorySpecInit /\ [][InventoryNext]_vars

GradeSpecInit ==
    /\ EmailInit
    /\ InventoryInit
    /\ GradeInit
    /\ CourseInit
    /\ RegistryIdle
    /\ AssessIdle
    /\ GeneratorIdle
    /\ ValidatorIdle
    /\ ChunkIdle
    /\ RestockIdle
    /\ ConstructIdle
    /\ MonitorIdle
    /\ CallerIdle
    /\ ClusterIdle
    /\ HighestIdle
    /\ PlaylistIdle
GradeSpec == GradeSpecInit /\ [][GradeNext]_vars

CourseSpecInit ==
    /\ EmailInit
    /\ InventoryInit
    /\ GradeIdle
    /\ CourseInit
    /\ RegistryIdle
    /\ AssessIdle
    /\ GeneratorIdle
    /\ ValidatorIdle
    /\ ChunkIdle
    /\ RestockIdle
    /\ ConstructIdle
    /\ MonitorIdle
    /\ CallerIdle
    /\ ClusterIdle
    /\ HighestIdle
    /\ PlaylistIdle
CourseSpec == CourseSpecInit /\ [][CourseNext]_vars

RegistrySpecInit ==
    /\ EmailInit
    /\ InventoryInit
    /\ GradeIdle
    /\ CourseInit
    /\ RegistryInit
    /\ AssessIdle
    /\ GeneratorIdle
    /\ ValidatorIdle
    /\ ChunkIdle
    /\ RestockIdle
    /\ ConstructIdle
    /\ MonitorIdle
    /\ CallerIdle
    /\ ClusterIdle
    /\ HighestIdle
    /\ PlaylistIdle
RegistrySpec == RegistrySpecInit /\ [][RegistryNext]_vars

AssessSpecInit ==
    /\ EmailInit
    /\ InventoryInit
    /\ GradeIdle
    /\ CourseInit
    /\ RegistryIdle
    /\ AssessIdle
    /\ GeneratorIdle
    /\ ValidatorIdle
    /\ ChunkIdle
    /\ RestockIdle
    /\ ConstructIdle
    /\ MonitorIdle
    /\ CallerIdle
    /\ ClusterIdle
    /\ HighestIdle
    /\ PlaylistIdle
AssessSpec == AssessSpecInit /\ [][AssessNext]_vars

GeneratorSpecInit ==
    /\ EmailInit
    /\ InventoryInit
    /\ GradeIdle
    /\ CourseInit
    /\ RegistryIdle
    /\ AssessIdle
    /\ GeneratorInit
    /\ ValidatorIdle
    /\ ChunkIdle
    /\ RestockIdle
    /\ ConstructIdle
    /\ MonitorIdle
    /\ CallerIdle
    /\ ClusterIdle
    /\ HighestIdle
    /\ PlaylistIdle
GeneratorSpec == GeneratorSpecInit /\ [][GeneratorNext]_vars

ValidatorSpecInit ==
    /\ EmailInit
    /\ InventoryInit
    /\ GradeIdle
    /\ CourseInit
    /\ RegistryIdle
    /\ AssessIdle
    /\ GeneratorIdle
    /\ ValidatorIdle
    /\ ChunkIdle
    /\ RestockIdle
    /\ ConstructIdle
    /\ MonitorIdle
    /\ CallerIdle
    /\ ClusterIdle
    /\ HighestIdle
    /\ PlaylistIdle
ValidatorSpec == ValidatorSpecInit /\ [][ValidatorNext]_vars

ChunkSpecInit ==
    /\ EmailInit
    /\ InventoryInit
    /\ GradeIdle
    /\ CourseInit
    /\ RegistryIdle
    /\ AssessIdle
    /\ GeneratorIdle
    /\ ValidatorIdle
    /\ ChunkInit
    /\ RestockIdle
    /\ ConstructIdle
    /\ MonitorIdle
    /\ CallerIdle
    /\ ClusterIdle
    /\ HighestIdle
    /\ PlaylistIdle
\* The generator is driven to exhaustion by its consumer (the list
\* comprehension of line 159), so the loop keeps stepping while it can.
ChunkSpec == ChunkSpecInit /\ [][ChunkNext]_vars /\ WF_vars(ChunkNext)

RestockSpecInit ==
    /\ EmailInit
    /\ InventoryInit
    /\ GradeIdle
    /\ CourseInit
    /\ RegistryIdle
    /\ AssessIdle
    /\ GeneratorIdle
    /\ ValidatorIdle
    /\ ChunkIdle
    /\ RestockInit
    /\ ConstructIdle
    /\ MonitorIdle
    /\ CallerIdle
    /\ ClusterIdle
    /\ HighestIdle
    /\ PlaylistIdle
RestockSpec == RestockSpecInit /\ [][RestockNext]_vars

ConstructSpecInit ==
    /\ EmailInit
    /\ InventoryInit
    /\ GradeIdle
    /\ CourseInit
    /\ RegistryIdle
    /\ AssessIdle
    /\ GeneratorIdle
    /\ ValidatorIdle
    /\ ChunkIdle
    /\ RestockIdle
    /\ ConstructInit
    /\ MonitorIdle
    /\ CallerIdle
    /\ ClusterIdle
    /\ HighestIdle
    /\ PlaylistIdle
ConstructSpec == ConstructSpecInit /\ [][ConstructNext]_vars

MonitorSpecInit ==
    /\ EmailInit
    /\ InventoryInit
    /\ GradeIdle
    /\ CourseInit
    /\ RegistryIdle
    /\ AssessIdle
    /\ GeneratorIdle
    /\ ValidatorIdle
    /\ ChunkIdle
    /\ RestockIdle
    /\ ConstructIdle
    /\ MonitorInit
    /\ CallerIdle
    /\ ClusterIdle
    /\ HighestIdle
    /\ PlaylistIdle
MonitorSpec == MonitorSpecInit /\ [][MonitorNext]_vars

CallerSpecInit ==
    /\ EmailInit
    /\ InventoryInit
    /\ GradeIdle
    /\ CourseInit
    /\ RegistryIdle
    /\ AssessIdle
    /\ GeneratorIdle
    /\ ValidatorIdle
    /\ ChunkIdle
    /\ RestockIdle
    /\ ConstructIdle
    /\ MonitorIdle
    /\ CallerIdle
    /\ ClusterIdle
    /\ HighestIdle
    /\ PlaylistIdle
CallerSpec == CallerSpecInit /\ [][CallerNext]_vars

ClusterSpecInit ==
    /\ EmailInit
    /\ InventoryInit
    /\ GradeIdle
    /\ CourseInit
    /\ RegistryIdle
    /\ AssessIdle
    /\ GeneratorIdle
    /\ ValidatorIdle
    /\ ChunkIdle
    /\ RestockIdle
    /\ ConstructIdle
    /\ MonitorIdle
    /\ CallerIdle
    /\ ClusterInit
    /\ HighestIdle
    /\ PlaylistIdle
ClusterSpec == ClusterSpecInit /\ [][ClusterNext]_vars

HighestSpecInit ==
    /\ EmailInit
    /\ InventoryInit
    /\ GradeIdle
    /\ CourseInit
    /\ RegistryIdle
    /\ AssessIdle
    /\ GeneratorIdle
    /\ ValidatorIdle
    /\ ChunkIdle
    /\ RestockIdle
    /\ ConstructIdle
    /\ MonitorIdle
    /\ CallerIdle
    /\ ClusterIdle
    /\ HighestInit
    /\ PlaylistIdle
HighestSpec == HighestSpecInit /\ [][HighestNext]_vars

PlaylistSpecInit ==
    /\ EmailInit
    /\ InventoryInit
    /\ GradeIdle
    /\ CourseInit
    /\ RegistryIdle
    /\ AssessIdle
    /\ GeneratorIdle
    /\ ValidatorIdle
    /\ ChunkIdle
    /\ RestockIdle
    /\ ConstructIdle
    /\ MonitorIdle
    /\ CallerIdle
    /\ ClusterIdle
    /\ HighestIdle
    /\ PlaylistInit
PlaylistSpec == PlaylistSpecInit /\ [][PlaylistNext]_vars

(***************************************************************************)
(* Properties                                                              *)
(***************************************************************************)

\* C5: in the usage script every query returns the set computed over the
\* lists as add_list stored them: the intersection, then newsletter minus
\* promotion, then promotion minus newsletter, then the union.
C5_UsageQueriesOverAddedLists ==
    /\ upc = 3 => e_ret = Returned(added["newsletter"] \cap added["promotion"])
    /\ upc = 4 => e_ret = Returned(added["newsletter"] \ added["promotion"])
    /\ upc = 5 => e_ret = Returned(added["promotion"] \ added["newsletter"])
    /\ upc = 6 => e_ret = Returned(added["newsletter"] \cup added["promotion"])

\* C8: update_quantity(name, q) returns True exactly when name is in the
\* inventory; on True the item's quantity becomes q, its price and all other
\* items are unchanged; on False the inventory is unchanged.
C8_UpdateQuantityFrame ==
    [][i_call'.op = "update_quantity" =>
        LET name == i_call'.name
            q == i_call'.quantity
        IN  /\ i_ret' = (IF name \in DOMAIN inventory THEN "True" ELSE "False")
            /\ name \in DOMAIN inventory =>
                  /\ DOMAIN inventory' = DOMAIN inventory
                  /\ inventory'[name].quantity = q
                  /\ inventory'[name].price = inventory[name].price
                  /\ \A other \in DOMAIN inventory \ {name} :
                        inventory'[other] = inventory[other]
            /\ name \notin DOMAIN inventory => inventory' = inventory
      ]_vars

\* C8 witness: a successful update_quantity in an inventory of several items
\* changed the quantity of one of them.
C8_Witness ==
    /\ i_call.op = "update_quantity"
    /\ i_ret = "True"
    /\ Cardinality(DOMAIN inventory) >= 2
    /\ inventory[i_call.name].quantity = i_call.quantity
    /\ \E other \in DOMAIN inventory : inventory[other].quantity # i_call.quantity

\* C9: grades[s] is the grade of the most recent update (or the initial grade)
\* of s, and the history of s lists, in order, every grade s held before
\* that; a student's first grade leaves the history empty.
C9_GradeHistory ==
    \A s \in StudentNames :
        IF s \in DOMAIN all_grades
        THEN /\ s \in DOMAIN grades
             /\ grades[s] = all_grades[s][Len(all_grades[s])]
             /\ HistoryOf(grade_history, s)
                   = SubSeq(all_grades[s], 1, Len(all_grades[s]) - 1)
        ELSE /\ s \notin DOMAIN grades
             /\ HistoryOf(grade_history, s) = <<>>

\* C9 witness: a student with an initial grade was updated twice, another
\* student got a first grade and has no history.
C9_Witness ==
    /\ "Alice" \in DOMAIN all_grades /\ Len(all_grades["Alice"]) = 3
    /\ all_grades["Alice"][1] # all_grades["Alice"][2]
    /\ Len(HistoryOf(grade_history, "Alice")) = 2
    /\ "Bob" \in DOMAIN grades /\ HistoryOf(grade_history, "Bob") = <<>>

\* C10: check_eligibility raises ValueError for an unregistered student or
\* course; otherwise it returns (MISSING_PREREQS, required - completed) when
\* that set is non-empty, else (OVERQUALIFIED, completed - required) when
\* |completed - required| > |required|, else (ELIGIBLE, {}); and it leaves
\* the stored courses and students as they were.
C10_CheckEligibility ==
    [][c_call'.op = "check_eligibility" =>
        LET s == c_call'.student
            c == c_call'.course
        IN  /\ courses' = courses
            /\ students' = students
            /\ (s \notin DOMAIN students \/ c \notin DOMAIN courses)
                  => c_ret'.kind = "ValueError"
            /\ (s \in DOMAIN students /\ c \in DOMAIN courses) =>
                  /\ c_ret'.kind = "return"
                  /\ (courses[c] \ students[s] # {}) =>
                        /\ c_ret'.status = MISSING_PREREQS
                        /\ c_ret'.set = courses[c] \ students[s]
                  /\ (courses[c] \ students[s] = {}
                      /\ Cardinality(students[s] \ courses[c]) > Cardinality(courses[c])) =>
                        /\ c_ret'.status = OVERQUALIFIED
                        /\ c_ret'.set = students[s] \ courses[c]
                  /\ (courses[c] \ students[s] = {}
                      /\ Cardinality(students[s] \ courses[c]) <= Cardinality(courses[c])) =>
                        /\ c_ret'.status = ELIGIBLE
                        /\ c_ret'.set = {}
      ]_vars

\* C10 witness: check_eligibility found a student with one extra course and
\* one required course eligible, not overqualified.
C10_Witness ==
    /\ c_call.op = "check_eligibility"
    /\ c_ret.kind = "return" /\ c_ret.status = ELIGIBLE
    /\ Cardinality(courses[c_call.course]) = 1
    /\ Cardinality(students[c_call.student] \ courses[c_call.course]) = 1

\* C6: analyze_by_type and get_feature_analytics return exactly what a fresh
\* computation over the current self.models returns: no stale cached result
\* is ever returned.
C6_NoStaleAnalytics ==
    /\ r_call.op = "analyze_by_type" => r_ret.val = ComputeByType(models, now)
    /\ r_call.op = "get_feature_analytics" => r_ret.val = ComputeFeatureAnalytics(models)

\* C7: add_model with a registered name raises ValueError and leaves the
\* models and both caches as they were; with a new name it stores the model
\* under its name, changes no other entry and adds exactly one model.
C7_AddModel ==
    [][r_call'.op = "add_model" =>
        LET m == r_call'.model IN
        IF m.name \in ModelNames(models)
        THEN /\ r_ret'.kind = "ValueError"
             /\ models' = models
             /\ performance_cache' = performance_cache
             /\ feature_cache' = feature_cache
        ELSE /\ r_ret'.kind = "none"
             /\ Len(models') = Len(models) + 1
             /\ ModelNamed(models', m.name) = m
             /\ \A n \in ModelNames(models) : ModelNamed(models', n) = ModelNamed(models, n)
      ]_vars

\* C7 witness: add_model was refused for a registered name whose stored model
\* differs from the one offered, with both caches filled.
C7_Witness ==
    /\ r_call.op = "add_model"
    /\ r_ret.kind = "ValueError"
    /\ ModelNamed(models, r_call.model.name) # r_call.model
    /\ "by_type" \in DOMAIN performance_cache
    /\ feature_cache.some

\* The positions of the finished assessment whose answer is the stored
\* correct answer, character for character.
ExactlyCorrect == {i \in 1..Len(a_answers) : a_answers[i] = a_questions[i].correct_answer}

Accepted ==
    {i \in 1..Len(a_answers) :
        LET q == a_questions[i]
            a == a_answers[i]
        IN  IF q.question_type = "multiple_choice"
            THEN a = q.correct_answer
            ELSE \E from \in 1..Len(a), to \in 1..Len(a) :
                    lower(SubSeq(a, from, to)) = lower(q.correct_answer)}

C3_AbortOnBadInput ==
    /\ [](g_pc = "exited" =>
            /\ g_exit = 0 => g_written = TemplateNames
            /\ (\/ ~g_config_file.json_ok
                \/ RequiredFields \ DOMAIN g_config_file.config # {}
                \/ g_templates # TemplateNames)
                  => (g_exit # 0 /\ g_message # ""))
    /\ [][g_runs' = g_runs => StageRank[g_pc'] >= StageRank[g_pc]]_vars

\* C3 witness: a run on a configuration lacking a required field has ended
\* with a non-zero exit and a message, having written nothing, after an
\* earlier run succeeded.
C3_Witness ==
    /\ g_pc = "exited"
    /\ g_config_file.json_ok
    /\ RequiredFields \ DOMAIN g_config_file.config # {}
    /\ g_exit # 0
    /\ g_message = "missing required field"
    /\ g_written = {}
    /\ Len(g_outputs) = 1

\* The required structural elements the notebook under validation lacks: a
\* markdown title cell, a markdown exercise cell, a code cell with a TODO.
MissingElements ==
    {e \in {"title", "exercise", "todo"} :
        ~\E i \in 1..Len(v_notebook) :
            /\ v_notebook[i].marker = e
            /\ v_notebook[i].cell_type = (IF e = "todo" THEN "code" ELSE "markdown")}

RECURSIVE Concatenation(_)
Concatenation(tuples) ==
    IF tuples = <<>> THEN <<>>
    ELSE Head(tuples) \o Concatenation(Tail(tuples))

\* C11: for size >= 1 chunk_iterator terminates, and it has then yielded
\* floor(len(data)/size) tuples, each of length size, whose concatenation is
\* data[0 : size*floor(len(data)/size)]: no trailing partial chunk, no
\* element twice.
C11_ChunkIterator ==
    /\ <>(ch_pc = "done")
    /\ [](ch_pc = "done" /\ ch_size >= 1 =>
            /\ Len(ch_yielded) = Len(ch_data) \div ch_size
            /\ \A i \in 1..Len(ch_yielded) : Len(ch_yielded[i]) = ch_size
            /\ Concatenation(ch_yielded)
                 = SubSeq(ch_data, 1, ch_size * (Len(ch_data) \div ch_size)))

\* C11 witness: a list whose length is not a multiple of the size has been
\* chunked: a chunk was yielded and the shorter rest was not.
C11_Witness ==
    /\ ch_pc = "done"
    /\ ch_size > 1
    /\ Len(ch_yielded) >= 1
    /\ Len(ch_data) % ch_size # 0
    /\ ch_pos = Len(ch_data)
    /\ \A i, j \in 1..Len(ch_data) : i # j => ch_data[i] # ch_data[j]

\* C12: running the loop labelled BUGGY CODE causes an error: on the
\* inventory of the notebook it never runs to its end.
C12_BuggyLoopRaises ==
    q_items = <<"apples", "bananas", "oranges", "grapes">>
    /\ (\A k \in {"oranges", "grapes"} : k \in DOMAIN q_inventory => q_inventory[k] = 0)
    /\ (\A k \in {"apples", "bananas"} : k \in DOMAIN q_inventory /\ q_inventory[k] > 0)
        => q_pc # "done"

\* C13: MLModel(...) raises ValueError unless 0 <= accuracy <= 1 and the
\* status is one of the four known ones; PipelineLog(...) raises ValueError
\* when records < 0 or errors < 0; and every model of a registry built from
\* constructed models has such an accuracy and status.
C13_ConstructionValidates ==
    /\ k_call.cls = "MLModel" =>
          (k_ret = "ValueError" <=>
              ~(/\ 0 <= k_call.data.accuracy /\ k_call.data.accuracy <= 100
                /\ k_call.data.status \in
                      {"production", "staging", "deprecated", "development"}))
    /\ (k_call.cls = "PipelineLog" /\ (k_call.data.records < 0 \/ k_call.data.errors < 0))
          => k_ret = "ValueError"
    /\ \A i \in 1..Len(k_registry) :
          /\ 0 <= k_registry[i].accuracy /\ k_registry[i].accuracy <= 100
          /\ k_registry[i].status \in
                {"production", "staging", "deprecated", "development"}

\* C13 witness: after a model with an accuracy out of range was refused, a
\* registry holding two models was built and a log with a negative error
\* count has just been refused.
C13_Witness ==
    /\ Len(k_registry) = 2
    /\ k_call.cls = "PipelineLog"
    /\ k_call.data.errors < 0
    /\ k_call.data.records >= 0
    /\ k_ret = "ValueError"

\* The names in a list of names.
NameSet(names) == {names[i] : i \in 1..Len(names)}

\* C14: the Advanced approach's models_need_attention (urgent + soon of the
\* schedule) names the same models as the Basic approach's (accuracy < 0.85
\* or deprecated).
C14_NeedAttentionAgrees ==
    r_call.op = "get_retraining_schedule" =>
        NameSet(models_need_attention(r_ret.val))
            = NameSet(basic_models_need_attention(models))

\* C18: the schedule partitions the registry: every registered name is in
\* exactly one of the four lists, once, no list holds an unregistered name,
\* and urgent holds exactly the models with accuracy < 0.7 or status
\* deprecated.
C18_SchedulePartitions ==
    r_call.op = "get_retraining_schedule" =>
        LET schedule == r_ret.val
            Lists == {"urgent", "soon", "monitor", "stable"}
            Count(name) ==
                Cardinality({<<l, i>> \in Lists \X (1..Len(models)) :
                                i <= Len(schedule[l]) /\ schedule[l][i] = name})
        IN  /\ \A name \in ModelNames(models) : Count(name) = 1
            /\ \A l \in Lists : NameSet(schedule[l]) \subseteq ModelNames(models)
            /\ \A l \in Lists : Len(schedule[l]) <= Len(models)
            /\ NameSet(schedule.urgent)
                 = {models[i].name : i \in {j \in 1..Len(models) :
                        models[j].accuracy < 70 \/ models[j].status = "deprecated"}}

\* C18 witness: a schedule of a registry of two models, one of them urgent
\* by its accuracy alone, the other not urgent.
C18_Witness ==
    /\ r_call.op = "get_retraining_schedule"
    /\ Len(models) = 2
    /\ Len(r_ret.val.urgent) = 1
    /\ \E i \in 1..2 : models[i].accuracy < 70 /\ models[i].status # "deprecated"

\* C19: at whatever age, urgent and soon together hold exactly the models
\* whose needs_retraining is true (age > 90 days, accuracy < 0.8 or
\* deprecated); monitor and stable hold the others, monitor exactly those of
\* them trained more than 60 days ago.
C19_ScheduleAgreesWithNeedsRetraining ==
    r_call.op = "get_retraining_schedule" =>
        LET schedule == r_ret.val
            Needs(m) == \/ now - m.last_trained > 90
                        \/ m.accuracy < 80
                        \/ m.status = "deprecated"
            All == {models[i] : i \in 1..Len(models)}
        IN  /\ NameSet(schedule.urgent) \cup NameSet(schedule.soon)
                 = {m.name : m \in {x \in All : Needs(x)}}
            /\ NameSet(schedule.monitor) \cup NameSet(schedule.stable)
                 = {m.name : m \in {x \in All : ~Needs(x)}}
            /\ NameSet(schedule.monitor)
                 = {m.name : m \in {x \in All : ~Needs(x) /\ now - x.last_trained > 60}}

\* C19 witness: a schedule with a model in soon for its age alone (91 days)
\* and a model in monitor (61 days).
C19_Witness ==
    /\ r_call.op = "get_retraining_schedule"
    /\ \E i, j \in 1..Len(models) :
          /\ now - models[i].last_trained = 91
          /\ models[i].accuracy >= 80 /\ models[i].status # "deprecated"
          /\ models[i].name \in NameSet(r_ret.val.soon)
          /\ now - models[j].last_trained = 61
          /\ models[j].name \in NameSet(r_ret.val.monitor)

\* C15: for every pipeline, the Advanced approach's pipeline_health (the
\* health_score of the analytics) equals the Basic approach's (successful
\* steps over total steps).
C15_PipelineHealthAgrees ==
    m_call = "get_pipeline_analytics" =>
        pipeline_health(m_ret.val) = basic_pipeline_health(m_logs)

\* C20: the completion status of a pipeline is failed if one of its logs is
\* FAILED, else warning if one is WARNING, else success if all are SUCCESS,
\* else partial; and the system health report lists in failed_pipelines
\* exactly the pipelines one of whose logs is FAILED.
C20_CompletionStatus ==
    /\ m_call = "get_pipeline_analytics" =>
          \A p \in DOMAIN m_ret.val :
              LET statuses == {m_logs[i].status :
                                  i \in {j \in 1..Len(m_logs) : m_logs[j].pipeline = p}}
              IN  m_ret.val[p].completion_status =
                     (CASE "failed" \in statuses -> "failed"
                        [] "failed" \notin statuses /\ "warning" \in statuses -> "warning"
                        [] statuses = {"success"} -> "success"
                        [] OTHER -> "partial")
    /\ (m_call = "get_system_health_report" /\ m_ret.kind = "report") =>
          /\ {m_ret.val.failed_pipelines[i] : i \in 1..Len(m_ret.val.failed_pipelines)}
               = {m_logs[i].pipeline : i \in {j \in 1..Len(m_logs) :
                                                 m_logs[j].status = "failed"}}
          /\ \A i, j \in 1..Len(m_ret.val.failed_pipelines) :
                i # j => m_ret.val.failed_pipelines[i] # m_ret.val.failed_pipelines[j]

\* C20 witness: a report over a pipeline with a failed and a warning log
\* and a pipeline without a failed log; only the first is listed.
C20_Witness ==
    /\ m_call = "get_system_health_report"
    /\ m_ret.kind = "report"
    /\ m_ret.val.failed_pipelines = <<"fraud_detection_prep">>
    /\ m_ret.val.total_pipelines = 2
    /\ \E i, j \in 1..Len(m_logs) :
          /\ m_logs[i].pipeline = "fraud_detection_prep" /\ m_logs[i].status = "failed"
          /\ m_logs[j].pipeline = "fraud_detection_prep" /\ m_logs[j].status = "warning"

\* C16: get_student_opportunities(student) returns the courses the student
\* can take: every course in the returned mapping has all its prerequisites
\* among the student's completed courses, and an unregistered student gets
\* the empty mapping.
C16_OpportunitiesAreTakeable ==
    c_call.op = "get_student_opportunities" =>
        IF c_call.student \notin DOMAIN students
        THEN c_ret.map = EmptyDict
        ELSE \A course \in DOMAIN c_ret.map :
                courses[course] \subseteq students[c_call.student]

\* C17: the queries are read-only: whatever calls were made, every entry of
\* self.lists is the set the last add_list stored under that name.
C17_QueriesReadOnly ==
    /\ DOMAIN lists = DOMAIN added
    /\ \A name \in DOMAIN lists : lists[name] = added[name]

\* C21: for every list of valid logs, once the health report has been asked
\* for, the Advanced approach's error_pipelines is the same set of pipelines
\* as the Basic approach's, and the report's total_records_processed and
\* total_errors equal the Basic sums over all logs.
C21_ErrorPipelinesAndTotalsAgree ==
    m_call = "get_system_health_report" =>
        /\ m_ret.kind = "report"
        /\ LET advanced == error_pipelines(PipelinesOf(m_logs), m_pipeline_cache)
               basic == basic_error_pipelines(m_logs)
           IN  {advanced[i] : i \in 1..Len(advanced)} = {basic[i] : i \in 1..Len(basic)}
        /\ m_ret.val.total_records_processed = basic_totals(m_logs).total_records
        /\ m_ret.val.total_errors = basic_totals(m_logs).total_errors

\* C22: for every registered student s and course c, s is in
\* get_eligible_students(c) exactly when check_eligibility(s, c) returns a
\* status other than MISSING_PREREQS, and analyze_course_difficulty()[c]
\* ['eligible_students'] is the number of such students.
C22_EligibilityConsistent ==
    LET NotMissing(c) ==
            {s \in DOMAIN students :
                check_eligibility(courses, students, s, c).status # MISSING_PREREQS}
    IN  /\ (c_call.op = "get_eligible_students" /\ c_call.course \in DOMAIN courses) =>
              {c_ret.list[i] : i \in 1..Len(c_ret.list)} = NotMissing(c_call.course)
        /\ c_call.op = "analyze_course_difficulty" =>
              /\ DOMAIN c_ret.map = DOMAIN courses
              /\ \A c \in DOMAIN courses :
                    c_ret.map[c].eligible_students = Cardinality(NotMissing(c))

\* C22 witness: an analysis of a course for which one of two registered
\* students is overqualified and the other is missing a prerequisite.
C22_Witness ==
    /\ c_call.op = "analyze_course_difficulty"
    /\ \E c \in DOMAIN courses, s, t \in DOMAIN students :
          /\ check_eligibility(courses, students, s, c).status = OVERQUALIFIED
          /\ check_eligibility(courses, students, t, c).status = MISSING_PREREQS
          /\ c_ret.map[c].eligible_students = 1

\* C24: recommend_next_courses(student) returns exactly the courses for
\* which the student is missing one or two prerequisites, each once and
\* paired with that missing set, in order of non-decreasing number of
\* missing prerequisites; no returned course is one the student is eligible
\* for, and an unregistered student gets the empty list.
C24_RecommendNextCourses ==
    c_call.op = "recommend_next_courses" =>
        LET list == c_ret.list
            student == c_call.student
            Missing(c) == courses[c] \ students[student]
        IN  IF student \notin DOMAIN students THEN list = <<>>
            ELSE /\ {list[i][1] : i \in 1..Len(list)} =
                       {c \in DOMAIN courses : Cardinality(Missing(c)) \in {1, 2}}
                 /\ \A i, j \in 1..Len(list) : i # j => list[i][1] # list[j][1]
                 /\ \A i \in 1..Len(list) :
                       /\ list[i][2] = Missing(list[i][1])
                       /\ check_eligibility(courses, students, student, list[i][1]).status
                             = MISSING_PREREQS
                 /\ \A i, j \in 1..Len(list) :
                       i < j => Cardinality(list[i][2]) <= Cardinality(list[j][2])

\* C24 witness: two courses are recommended, the one added first with two
\* prerequisites missing after the one added second with one missing.
C24_Witness ==
    /\ c_call.op = "recommend_next_courses"
    /\ Len(c_ret.list) = 2
    /\ Len(course_keys) = 2
    /\ c_ret.list[1][1] = course_keys[2]
    /\ Cardinality(c_ret.list[1][2]) = 1
    /\ Cardinality(c_ret.list[2][2]) = 2

\* C23: CourseManager stores copies: whatever the caller does afterwards to
\* a set it passed to add_course or add_student, the manager's stored set
\* is the set as it was at the add call, and every check_eligibility result
\* is the one those sets give.
C23_StoresCopies ==
    /\ \A name \in DOMAIN u_courses : Elements(u_sets, u_courses[name]) = u_added[name]
    /\ \A name \in DOMAIN u_students : Elements(u_sets, u_students[name]) = u_added[name]
    /\ u_call.op = "check_eligibility" =>
          u_ret = check_eligibility(
                     [name \in DOMAIN u_courses |-> u_added[name]],
                     [name \in DOMAIN u_students |-> u_added[name]],
                     u_call.student, u_call.course)

\* C23 witness: the caller has since emptied the set it passed for the
\* student and enlarged the one it passed for the course, and the student
\* is still found eligible.
C23_Witness ==
    /\ u_call.op = "check_eligibility"
    /\ u_ret.kind = "return"
    /\ u_ret.status = ELIGIBLE
    /\ u_added[u_call.course] = {"Python"}
    /\ u_sets[u_passed[u_call.course]] = {"Python", "Math"}
    /\ u_added[u_call.student] = {"Python"}
    /\ u_sets[u_passed[u_call.student]] = {}

\* C25: the clusters find_semantic_clusters returns partition the
\* documents: every index 0..n-1 is in exactly one cluster and at one
\* place of it, each cluster lists its indices in increasing order, and
\* every member of a cluster other than its first has Jaccard similarity
\* (intersection over union of the word sets, 0 when both are empty) of at
\* least the threshold with the cluster's first document.
C25_ClustersPartition ==
    t_pc = "done" =>
        LET n == Len(t_documents)
            words(k) == doc_sets(t_preprocessing, t_documents)[k + 1]
            Similar(a, b) ==
                IF words(a) \cup words(b) = {} THEN 0 >= t_threshold[1]
                ELSE Cardinality(words(a) \cap words(b)) * t_threshold[2]
                        >= t_threshold[1] * Cardinality(words(a) \cup words(b))
        IN  /\ \A k \in 0..(n - 1) :
                  Cardinality({<<c, p>> \in (1..Len(t_clusters)) \X (1..n) :
                                  p <= Len(t_clusters[c]) /\ t_clusters[c][p] = k}) = 1
            /\ \A c \in 1..Len(t_clusters) :
                  /\ t_clusters[c] # <<>>
                  /\ \A p \in 1..Len(t_clusters[c]) : t_clusters[c][p] \in 0..(n - 1)
                  /\ \A p, q \in 1..Len(t_clusters[c]) :
                        p < q => t_clusters[c][p] < t_clusters[c][q]
                  /\ \A p \in 2..Len(t_clusters[c]) :
                        Similar(t_clusters[c][1], t_clusters[c][p])

\* C25 witness: three documents at the default threshold; the third joins
\* the first (similarity 1/3), the second (similarity 0 with the first) is
\* left for a cluster of its own.
C25_Witness ==
    /\ t_pc = "done"
    /\ t_threshold = <<3, 10>>
    /\ t_clusters = <<<<0, 2>>, <<1>>>>
    /\ LET sets == doc_sets(t_preprocessing, t_documents)
       IN  /\ jaccard(sets[1], sets[3]) = <<1, 3>>
           /\ jaccard(sets[1], sets[2]) = <<0, 1>>

\* C26: for every non-empty grade book with integer grades, the Basic
\* approach's scan and the Optimized approach's max() select the same
\* highest_student and the same highest_grade, ties included.
C26_HighestAgrees ==
    (h_basic.done /\ h_optimized.done) =>
        /\ h_basic.highest_student = h_optimized.highest_student
        /\ h_basic.highest_grade = h_optimized.highest_grade

\* C27: for every flat music_data list, the Basic approach's slices give
\* the same songs, artists and genres as the Optimized approach's zip and
\* as the Advanced approach's chunk_iterator with Track tuples.
C27_PlaylistsAgree ==
    (p_basic.kind # "none" /\ p_optimized.kind # "none" /\ p_advanced.kind # "none") =>
        /\ p_basic = p_optimized
        /\ p_basic = p_advanced

====
